---------------------------- MODULE Spec2Model ----------------------------
(***************************************************************************)
(* Model of the trigger-activated completion engine of PromptSensei        *)
(* (src/firefox/content.js, class AIPromptAutocomplete and its helpers).   *)
(*                                                                         *)
(* Text is a sequence of one-character strings.  Offsets are 0-based as in *)
(* the JavaScript source; SubSeq is 1-based, the helpers below convert.    *)
(* Handlers run to completion: every handler is an operator from a world   *)
(* record (engine fields, DOM state, pending timers) to a world record,    *)
(* and every action applies one whole handler.                             *)
(***************************************************************************)
EXTENDS Integers, Sequences, FiniteSets, TLC

(***************************************************************************)
(* Bounds of the model                                                     *)
(***************************************************************************)
\* longest text the user builds by typing or pasting on a one-surface page
MaxLen == 2
\* longest text the user builds by typing or pasting on a two-surface page
MaxLenTwo == 1
\* longest text a surface holds; an insertion that would exceed it is not
\* explored
MaxText == 2
\* longest text a surface of a prefilled page holds
MaxPrefilled == 4
\* longest text the surface of a page with a library of templates holds
MaxRoomy == 4
\* most timers pending at once
MaxTimers == 5
\* longest value the user types into a field of the placeholder form
MaxFieldLen == 1
\* longest internal filter the user types while the dropdown is visible
MaxFilterLen == 1
\* most timers pending when the user presses a key or pastes
MaxPending == 1
\* the same on a two-surface page
MaxPendingTwo == 0
\* most timers pending when the user moves the focus or clicks
MaxPendingFocus == 0

(***************************************************************************)
(* JavaScript string primitives                                            *)
(***************************************************************************)
Min(a, b) == IF a < b THEN a ELSE b
Max(a, b) == IF a > b THEN a ELSE b
Clamp(x, lo, hi) == Max(lo, Min(x, hi))

\* String.prototype.substring(a, b): both ends clamped to [0, length], swapped
\* when a > b
Substring(s, a, b) ==
  LET a1 == Clamp(a, 0, Len(s))
      b1 == Clamp(b, 0, Len(s))
  IN  SubSeq(s, Min(a1, b1) + 1, Max(a1, b1))

\* String.prototype.substring(a)
SubstringFrom(s, a) == Substring(s, a, Len(s))

\* String.prototype.startsWith
StartsWith(s, p) == Len(p) <= Len(s) /\ SubSeq(s, 1, Len(p)) = p

\* the 0-based offsets at which p occurs in s
Occurrences(s, p) ==
  { i \in 0..(Len(s) - Len(p)) : SubSeq(s, i + 1, i + Len(p)) = p }

\* String.prototype.includes
Includes(s, p) == Occurrences(s, p) # {}

\* String.prototype.lastIndexOf: -1 when p does not occur
LastIndexOf(s, p) ==
  IF Occurrences(s, p) = {} THEN -1
  ELSE CHOOSE i \in Occurrences(s, p) : \A j \in Occurrences(s, p) : j <= i

\* the characters the regular expression class \s and trim() treat as blank
WhitespaceChars == {" ", "\n", "\t", "\r"}
IsWhitespace(c) == c \in WhitespaceChars

UpperChars == <<"A","B","C","D","E","F","G","H","I","J","K","L","M",
                "N","O","P","Q","R","S","T","U","V","W","X","Y","Z">>
LowerChars == <<"a","b","c","d","e","f","g","h","i","j","k","l","m",
                "n","o","p","q","r","s","t","u","v","w","x","y","z">>

ToLowerChar(c) ==
  IF \E i \in 1..Len(UpperChars) : UpperChars[i] = c
  THEN LowerChars[CHOOSE i \in 1..Len(UpperChars) : UpperChars[i] = c]
  ELSE c

\* String.prototype.toLowerCase
ToLowerCase(s) == [i \in 1..Len(s) |-> ToLowerChar(s[i])]

\* String.prototype.trim
Trim(s) ==
  LET keep == { i \in 1..Len(s) : ~IsWhitespace(s[i]) }
  IN  IF keep = {} THEN << >>
      ELSE SubSeq(s, CHOOSE i \in keep : \A j \in keep : i <= j,
                     CHOOSE i \in keep : \A j \in keep : j <= i)

\* s.split(/\s+/).some(word => word.startsWith(q)) for a non-empty q: some
\* maximal blank-free run of s starts with q (the empty strings split() yields
\* at a blank end of s start with no non-empty q)
SomeWordStartsWith(s, q) ==
  \E i \in Occurrences(s, q) :
     /\ i = 0 \/ IsWhitespace(s[i])
     /\ \A k \in 1..Len(q) : ~IsWhitespace(q[k])

\* s with the characters at offsets [from, to) replaced by chunk
Splice(s, from, to, chunk) ==
  SubSeq(s, 1, from) \o chunk \o SubSeq(s, to + 1, Len(s))


(***************************************************************************)
(* Settings and templates                                                  *)
(***************************************************************************)
\* the settings the Settings Provider delivers: a one-character text
\* trigger, the default hotkey, and two templates (one without placeholders,
\* one that is nothing but two placeholders)
TextTrigger == <<":">>
Hotkey == <<"C","t","r","l","+","S","h","i","f","t","+","P">>
PromptPlain == [name |-> <<"a", "g">>, content |-> <<"k">>]
PromptBare == [name |-> <<"G", "o">>, content |-> <<"[", "n", "]", "{", "m", "}">>]
LoadedSettings ==
  [hotkey |-> Hotkey, textTrigger |-> TextTrigger,
   prompts |-> <<PromptPlain, PromptBare>>]
\* the settings of a user who has saved no template, of one who has emptied
\* the text trigger, and of one who has emptied the hotkey: init keeps an
\* empty value the provider delivers (the spread after the defaults)
EmptyLibrary == [LoadedSettings EXCEPT !.prompts = << >>]
NoTextTrigger == [LoadedSettings EXCEPT !.textTrigger = << >>]
NoHotkey == [LoadedSettings EXCEPT !.hotkey = << >>]

(***************************************************************************)
(* Match scorer                                                            *)
(***************************************************************************)
\* a scorer that gives no bonus for words
ScoreWithoutWords(queryLower, prompt) ==
  LET nameLower == ToLowerCase(prompt.name)
      contentLower == ToLowerCase(prompt.content)
  IN  (IF nameLower = queryLower THEN 1000 ELSE 0)
    + (IF contentLower = queryLower THEN 500 ELSE 0)
    + (IF StartsWith(nameLower, queryLower) THEN 100 ELSE 0)
    + (IF StartsWith(contentLower, queryLower) THEN 50 ELSE 0)
    + (IF Includes(nameLower, queryLower) THEN 10 ELSE 0)
    + (IF Includes(contentLower, queryLower) THEN 5 ELSE 0)

\* the score of one prompt against a lower-cased, trimmed, non-empty query
Score(queryLower, prompt) ==
  LET nameLower == ToLowerCase(prompt.name)
      contentLower == ToLowerCase(prompt.content)
  IN  (IF nameLower = queryLower THEN 1000 ELSE 0)
    + (IF contentLower = queryLower THEN 500 ELSE 0)
    + (IF StartsWith(nameLower, queryLower) THEN 100 ELSE 0)
    + (IF StartsWith(contentLower, queryLower) THEN 50 ELSE 0)
    + (IF Includes(nameLower, queryLower) THEN 10 ELSE 0)
    + (IF Includes(contentLower, queryLower) THEN 5 ELSE 0)
    + (IF SomeWordStartsWith(nameLower, queryLower) THEN 25 ELSE 0)
    + (IF SomeWordStartsWith(contentLower, queryLower) THEN 15 ELSE 0)

\* Array.prototype.filter
RECURSIVE FilterPositive(_)
FilterPositive(items) ==
  IF items = << >> THEN << >>
  ELSE (IF Head(items).score > 0 THEN <<Head(items)>> ELSE << >>)
       \o FilterPositive(Tail(items))

\* x put in front of the items that do not score more: a sort that is not
\* stable
RECURSIVE InsertBeforeEqual(_, _)
InsertBeforeEqual(sorted, x) ==
  IF sorted = << >> THEN <<x>>
  ELSE IF Head(sorted).score > x.score
       THEN <<Head(sorted)>> \o InsertBeforeEqual(Tail(sorted), x)
       ELSE <<x>> \o sorted

\* x put into a list sorted by descending score, behind every item that does
\* not score less (Array.prototype.sort is stable)
RECURSIVE InsertByScore(_, _)
InsertByScore(sorted, x) ==
  IF sorted = << >> THEN <<x>>
  ELSE IF Head(sorted).score >= x.score
       THEN <<Head(sorted)>> \o InsertByScore(Tail(sorted), x)
       ELSE <<x>> \o sorted

\* items.sort((a, b) => b.score - a.score)
RECURSIVE SortByScore(_)
SortByScore(items) ==
  IF items = << >> THEN << >>
  ELSE InsertByScore(SortByScore(SubSeq(items, 1, Len(items) - 1)),
                     items[Len(items)])

\* scored.map(item => item.prompt)
PromptsOf(scored) == [i \in 1..Len(scored) |-> scored[i].prompt]

\* the ranked list both filter functions compute from a query
RankPrompts(query, prompts) ==
  LET queryLower == Trim(ToLowerCase(query))
      scored == [i \in 1..Len(prompts) |->
                   [prompt |-> prompts[i], score |-> Score(queryLower, prompts[i])]]
      sorted == SortByScore(FilterPositive(scored))
  IN  IF queryLower = << >> THEN prompts ELSE PromptsOf(sorted)

(***************************************************************************)
(* Placeholder template engine                                             *)
(***************************************************************************)
\* the first offset at or after from whose character is in stop, Len(s) if none
RunEnd(s, from, stop) ==
  LET hits == { k \in from..(Len(s) - 1) : s[k + 1] \in stop }
  IN  IF hits = {} THEN Len(s) ELSE CHOOSE k \in hits : \A j \in hits : k <= j

\* the match of  open ([^:close]+) (?: : ([^close]*) )? close  starting at
\* offset p, as [ok, name, defaultValue, end]; name is match[1] untrimmed
TokenAt(s, p, open, close) ==
  LET nameEnd == RunEnd(s, p + 1, {":", close})
      defEnd == RunEnd(s, nameEnd + 1, {close})
      none == [ok |-> FALSE, name |-> << >>, defaultValue |-> << >>, end |-> p]
  IN  IF p >= Len(s) \/ s[p + 1] # open \/ nameEnd = p + 1 \/ nameEnd >= Len(s)
      THEN none
      ELSE IF s[nameEnd + 1] = close
      THEN [ok |-> TRUE, name |-> SubSeq(s, p + 2, nameEnd),
            defaultValue |-> << >>, end |-> nameEnd + 1]
      ELSE IF defEnd < Len(s)
      THEN [ok |-> TRUE, name |-> SubSeq(s, p + 2, nameEnd),
            defaultValue |-> SubSeq(s, nameEnd + 2, defEnd), end |-> defEnd + 1]
      ELSE none

\* the successive matches of the global regular expression from offset pos on
RECURSIVE ScanTokens(_, _, _, _)
ScanTokens(s, pos, open, close) ==
  IF pos >= Len(s) THEN << >>
  ELSE LET m == TokenAt(s, pos, open, close)
       IN  IF m.ok
           THEN <<[name |-> Trim(m.name), defaultValue |-> m.defaultValue,
                   fullMatch |-> SubSeq(s, pos + 1, m.end)]>>
                \o ScanTokens(s, m.end, open, close)
           ELSE ScanTokens(s, pos + 1, open, close)

\* the loop body shared by both while loops of extractPlaceholders: the
\* matches whose name was not seen yet are appended
RECURSIVE AddUnseen(_, _, _)
AddUnseen(placeholders, matches, syntax) ==
  IF matches = << >> THEN placeholders
  ELSE LET m == Head(matches)
           seen == { placeholders[i].name : i \in 1..Len(placeholders) }
       IN  AddUnseen(IF m.name \in seen THEN placeholders
                     ELSE Append(placeholders,
                                 [name |-> m.name, defaultValue |-> m.defaultValue,
                                  syntax |-> syntax, fullMatch |-> m.fullMatch]),
                     Tail(matches), syntax)

extractPlaceholders(content) ==
  AddUnseen(AddUnseen(<< >>, ScanTokens(content, 0, "[", "]"), "bracket"),
            ScanTokens(content, 0, "{", "}"), "brace")

\* the end of the match of  open name (?: : [^close]* )? close  at offset p,
\* -1 when there is none
NamedTokenEnd(s, p, open, close, name) ==
  LET q == p + 1 + Len(name)
      defEnd == RunEnd(s, q + 1, {close})
  IN  IF p >= Len(s) \/ s[p + 1] # open
         \/ ~StartsWith(SubstringFrom(s, p + 1), name) \/ q >= Len(s)
      THEN -1
      ELSE IF s[q + 1] = close THEN q + 1
      ELSE IF s[q + 1] = ":" /\ defEnd < Len(s) THEN defEnd + 1
      ELSE -1

\* s.replace(new RegExp(..., 'g'), value) for a value without $ patterns
RECURSIVE ReplaceTokens(_, _, _, _, _, _)
ReplaceTokens(s, pos, open, close, name, value) ==
  IF pos >= Len(s) THEN << >>
  ELSE LET e == NamedTokenEnd(s, pos, open, close, name)
       IN  IF e >= 0
           THEN value \o ReplaceTokens(s, e, open, close, name, value)
           ELSE <<s[pos + 1]>> \o ReplaceTokens(s, pos + 1, open, close, name, value)

\* a || b || c on strings: the first non-empty one
FirstNonEmpty(a, b, c) == IF a # << >> THEN a ELSE IF b # << >> THEN b ELSE c

\* the forEach of insertPromptWithPlaceholders from placeholder i on
RECURSIVE SubstituteFrom(_, _, _, _)
SubstituteFrom(content, placeholders, values, i) ==
  IF i > Len(placeholders) THEN content
  ELSE LET ph == placeholders[i]
           value == FirstNonEmpty(values[ph.name], ph.defaultValue, << >>)
           replaced == IF ph.syntax = "bracket"
                       THEN ReplaceTokens(content, 0, "[", "]", ph.name, value)
                       ELSE ReplaceTokens(content, 0, "{", "}", ph.name, value)
       IN  SubstituteFrom(replaced, placeholders, values, i + 1)

(***************************************************************************)
(* The page: two plain editable surfaces and a rich-text one, the dropdown  *)
(* the engine adds, and the rest of the document ("body")                  *)
(***************************************************************************)
Surfaces == {"A", "B", "E"}
\* element.tagName of each surface
TagName(s) == IF s = "A" THEN "INPUT" ELSE IF s = "B" THEN "TEXTAREA" ELSE "DIV"
\* element.isContentEditable
isContentEditable(s) == s = "E"
\* no element: the null of activeInput and dropdownModeType
Null == "null"
\* the inputs of the placeholder form, by data-placeholder-index
Fields == {"field0", "field1"}
FieldIndex(f) == IF f = "field0" THEN 0 ELSE 1
FieldOf(i) == IF i = 0 THEN "field0" ELSE "field1"
\* the elements this.dropdown.contains(): the container ("dropdown"), the
\* control the user clicked last, an item of the list or a button of the
\* form ("control"), and the fields of the form
OwnUI == {"dropdown", "control"} \cup Fields

(***************************************************************************)
(* State                                                                   *)
(***************************************************************************)
VARIABLES
  settings,                   \* this.settings
  activeInput,                \* this.activeInput: a surface or Null
  dropdown,                   \* this.dropdown: 0 is null, 1 an element
  selectedIndex,              \* this.selectedIndex (0-based, -1 none)
  filteredPrompts,            \* this.filteredPrompts: the ranked list
  filterValue,                \* this.filterValue: the internal filter
  isDropdownVisible,
  isHiding,
  isInDropdownMode,
  dropdownModeStartPosition,
  dropdownModeType,           \* "hotkey", "textTrigger" or Null
  dropdownModeLastCursorPos,
  justInsertedPrompt,
  isInPlaceholderMode,
  currentPromptContent,
  placeholders,
  placeholderValues,          \* name -> value
  currentPlaceholderIndex,
  text,                       \* surface -> its text
  cursor,                     \* surface -> its caret offset
  attached,                   \* the surfaces document.body contains
  focus,                      \* document.activeElement
  rendered,                   \* what the dropdown element shows
  timers,                     \* pending ResourceManager timeouts, oldest first
  env,                        \* the page and its user: what can be focused,
                              \* typed and pasted, and how much
  initState,                  \* where init() stands, and its retries
  isDestroyed,                \* this.resources.isDestroyed
  provider                    \* the background script: its storage, its
                              \* clock and the requests it is handling

vars == <<settings, activeInput, dropdown, selectedIndex, filteredPrompts,
          filterValue, isDropdownVisible, isHiding, isInDropdownMode,
          dropdownModeStartPosition, dropdownModeType,
          dropdownModeLastCursorPos, justInsertedPrompt, isInPlaceholderMode,
          currentPromptContent, placeholders, placeholderValues,
          currentPlaceholderIndex, text, cursor, attached, focus, rendered,
          timers, env, initState, isDestroyed, provider>>

\* the state as one record, the argument and result of every handler
World ==
  [settings |-> settings, activeInput |-> activeInput, dropdown |-> dropdown,
   selectedIndex |-> selectedIndex, filteredPrompts |-> filteredPrompts,
   filterValue |-> filterValue, isDropdownVisible |-> isDropdownVisible,
   isHiding |-> isHiding, isInDropdownMode |-> isInDropdownMode,
   dropdownModeStartPosition |-> dropdownModeStartPosition,
   dropdownModeType |-> dropdownModeType,
   dropdownModeLastCursorPos |-> dropdownModeLastCursorPos,
   justInsertedPrompt |-> justInsertedPrompt,
   isInPlaceholderMode |-> isInPlaceholderMode,
   currentPromptContent |-> currentPromptContent,
   placeholders |-> placeholders, placeholderValues |-> placeholderValues,
   currentPlaceholderIndex |-> currentPlaceholderIndex,
   text |-> text, cursor |-> cursor, attached |-> attached, focus |-> focus,
   rendered |-> rendered,
   timers |-> timers, env |-> env, initState |-> initState,
   isDestroyed |-> isDestroyed,
   prevented |-> FALSE]       \* e.preventDefault() was called on the event

(***************************************************************************)
(* Timers.  A timer is [kind, delay, el, batch]; el is the element the     *)
(* callback's closure holds (Null when it holds none).  Timers set by the  *)
(* same run of a handler are set at the same time and form one batch;      *)
(* batches are numbered in the order they were set, and batch 0 is the     *)
(* handler that is running.                                                *)
(***************************************************************************)
ACTIVATION_DELAY == 10
FOCUS_CHECK_DELAY == 100
HIDE_REMOVE_DELAY == 150
HIDE_FOCUS_DELAY == 10
ESCAPE_FOCUS_DELAY == 10
GUARD_DELAY == 500
RICH_FOCUS_DELAY == 50
INSERT_FOCUS_DELAY == 100
INSERT_INPUT_DELAY == 50
AUTO_HIDE_DELAY == 3000
FORM_POSITION_DELAY == 10
FORM_FOCUS_DELAY == 10
NAV_FOCUS_DELAY == 10
EXIT_FOCUS_DELAY == 10

\* a setTimeout that does not look at isDestroyed
SetTimeoutAlways(w, kind, delay, el) ==
  [w EXCEPT !.timers = Append(@, [kind |-> kind, delay |-> delay, el |-> el,
                                  batch |-> 0])]

\* this.resources.setTimeout(callback, delay): nothing once destroyed
SetTimeout(w, kind, delay, el) ==
  IF w.isDestroyed THEN w
  ELSE [w EXCEPT !.timers = Append(@, [kind |-> kind, delay |-> delay,
                                       el |-> el, batch |-> 0])]

\* Timer ts[j] is due before timer ts[i] whatever the time between the
\* handlers that set them: it was set at the same time with a shorter delay
\* (or the same delay, earlier in the handler), or set earlier with a delay
\* that is not longer.  The browser runs timers in the order they are due.
DueBefore(ts, j, i) ==
  \/ ts[j].batch = ts[i].batch
       /\ (ts[j].delay < ts[i].delay \/ (ts[j].delay = ts[i].delay /\ j < i))
  \/ ts[j].batch < ts[i].batch /\ ts[j].delay <= ts[i].delay

\* the timer at position i may be the next to fire
CanFire(ts, i) == \A j \in 1..Len(ts) : j # i => ~DueBefore(ts, j, i)

\* the pending timers once the running handler has returned: its timers
\* become the newest batch, and the batches are numbered 1, 2, ...
Settle(ts) ==
  LET old == { ts[i].batch : i \in 1..Len(ts) } \ {0}
  IN  [i \in 1..Len(ts) |->
         [ts[i] EXCEPT !.batch =
            IF @ = 0 THEN Cardinality(old) + 1
            ELSE Cardinality({ b \in old : b <= ts[i].batch })]]

RemoveAt(ts, i) == SubSeq(ts, 1, i - 1) \o SubSeq(ts, i + 1, Len(ts))

\* the next state is the world w
Becomes(w) ==
  /\ Len(w.timers) <= MaxTimers
  /\ \A s \in Surfaces : Len(w.text[s]) <= env.maxText
  /\ settings' = w.settings
  /\ activeInput' = w.activeInput
  /\ dropdown' = w.dropdown
  /\ selectedIndex' = w.selectedIndex
  /\ filteredPrompts' = w.filteredPrompts
  /\ filterValue' = w.filterValue
  /\ isDropdownVisible' = w.isDropdownVisible
  /\ isHiding' = w.isHiding
  /\ isInDropdownMode' = w.isInDropdownMode
  /\ dropdownModeStartPosition' = w.dropdownModeStartPosition
  /\ dropdownModeType' = w.dropdownModeType
  /\ dropdownModeLastCursorPos' = w.dropdownModeLastCursorPos
  /\ justInsertedPrompt' = w.justInsertedPrompt
  /\ isInPlaceholderMode' = w.isInPlaceholderMode
  /\ currentPromptContent' = w.currentPromptContent
  /\ placeholders' = w.placeholders
  /\ placeholderValues' = w.placeholderValues
  /\ currentPlaceholderIndex' = w.currentPlaceholderIndex
  /\ text' = w.text
  /\ cursor' = w.cursor
  /\ attached' = w.attached
  /\ focus' = w.focus
  /\ rendered' = w.rendered
  /\ timers' = Settle(w.timers)
  /\ env' = env
  /\ initState' = w.initState
  /\ isDestroyed' = w.isDestroyed
  /\ provider' = provider

(***************************************************************************)
(* InputManager and focus                                                  *)
(***************************************************************************)
\* InputManager.getInputValue: '' for no element
getInputValue(w, input) == IF input = Null THEN << >> ELSE w.text[input]

\* InputManager.getCursorPosition: 0 for no element
getCursorPosition(w, input) == IF input = Null THEN 0 ELSE w.cursor[input]

\* HTMLInputElement.setSelectionRange(pos, pos) on a text of length n: the
\* offset is an unsigned long (a negative one wraps to a huge one) and is
\* then limited to the length
SetSelectionRange(pos, n) == IF pos < 0 THEN n ELSE Min(pos, n)

\* the focusin listener with e.target a surface
OnFocusIn(w, s) == [w EXCEPT !.activeInput = s]

\* the focusout listener with e.target a surface
OnFocusOut(w, s) ==
  IF w.isInPlaceholderMode THEN w
  ELSE IF s = w.activeInput
       THEN SetTimeout(w, "focusCheck", FOCUS_CHECK_DELAY, s)
       ELSE w

\* onFocus of a field of the form: onPlaceholderNavigate(index)
onPlaceholderNavigate(w, index) ==
  IF index >= 0 /\ index < Len(w.placeholders)
  THEN [w EXCEPT !.currentPlaceholderIndex = index]
  ELSE w

\* the focus moves to x (by the user or by element.focus()): focusout is
\* dispatched on the element left, focusin on the one entered.  Neither
\* listener acts on an element of the dropdown; a field has its onFocus.
MoveFocus(w, x) ==
  IF w.focus = x THEN w
  ELSE LET left == w.focus
           w1 == [w EXCEPT !.focus = x]
           w2 == IF left \in Surfaces THEN OnFocusOut(w1, left) ELSE w1
       IN  IF x \in Surfaces THEN OnFocusIn(w2, x)
           ELSE IF x \in Fields THEN onPlaceholderNavigate(w2, FieldIndex(x))
           ELSE w2

\* element.focus(): nothing for a surface the document no longer contains
focusElement(w, x) ==
  IF x \in Surfaces /\ x \notin w.attached THEN w ELSE MoveFocus(w, x)

(***************************************************************************)
(* Dropdown rendering                                                      *)
(***************************************************************************)
\* the focus after the dropdown element, or the form inside it, is removed
\* from the document
FocusAfterRemoval(w, gone) == IF w.focus \in gone THEN "body" ELSE w.focus

createDropdown(w) ==
  [w EXCEPT !.dropdown = 1, !.rendered = "none",
            !.focus = FocusAfterRemoval(w, OwnUI)]

\* window.render replaces the list by the form and the form by the list: the
\* fields go with the form, and a clicked control goes with what it was part of
renderDropdown(w) ==
  IF w.dropdown = 0 \/ w.isDestroyed \/ w.isHiding THEN w
  ELSE LET kind == IF w.isInPlaceholderMode THEN "form" ELSE "list"
           gone == (IF kind = "form" THEN {} ELSE Fields)
                     \cup (IF kind = w.rendered THEN {} ELSE {"control"})
       IN  [w EXCEPT
             !.selectedIndex =
                IF Len(w.filteredPrompts) > 0 /\ w.selectedIndex = -1 THEN 0 ELSE @,
             !.rendered = kind,
             !.focus = FocusAfterRemoval(w, gone)]

updateSelection(w) == IF w.isDropdownVisible THEN renderDropdown(w) ELSE w

shouldRestoreFocus(w) == ~(w.dropdown # 0 /\ w.focus \in OwnUI)

shouldKeepDropdownOpen(w) ==
  IF w.dropdown = 0 \/ ~w.isDropdownVisible THEN FALSE
  ELSE IF w.isInPlaceholderMode THEN TRUE
  ELSE IF w.isInDropdownMode THEN TRUE
  ELSE IF w.focus \in OwnUI THEN TRUE
  ELSE w.focus = w.activeInput

hideDropdown(w) ==
  LET w1 == IF w.dropdown # 0
            THEN SetTimeout([w EXCEPT !.isHiding = TRUE],
                            "hideRemove", HIDE_REMOVE_DELAY, Null)
            ELSE [w EXCEPT !.filteredPrompts = << >>, !.isHiding = FALSE]
      w2 == [w1 EXCEPT !.isDropdownVisible = FALSE, !.selectedIndex = -1]
  IN  IF w2.activeInput # Null /\ ~w2.justInsertedPrompt /\ shouldRestoreFocus(w2)
      THEN SetTimeout(w2, "hideFocus", HIDE_FOCUS_DELAY, w2.activeInput)
      ELSE w2

resetPlaceholderMode(w) ==
  [w EXCEPT !.isInPlaceholderMode = FALSE, !.currentPromptContent = << >>,
            !.placeholders = << >>, !.placeholderValues = << >>,
            !.currentPlaceholderIndex = 0]

resetDropdownMode(w) ==
  hideDropdown(resetPlaceholderMode(
    [w EXCEPT !.isHiding = TRUE, !.isInDropdownMode = FALSE,
              !.dropdownModeType = Null, !.dropdownModeStartPosition = -1,
              !.dropdownModeLastCursorPos = -1, !.filteredPrompts = << >>]))

showNoPromptsMessage(w) ==
  IF ~w.isInDropdownMode THEN w
  ELSE SetTimeout([createDropdown(w) EXCEPT !.rendered = "message",
                                            !.isDropdownVisible = TRUE],
                  "autoHide", AUTO_HIDE_DELAY, Null)

showNoMatchesMessage(w) ==
  IF ~w.isInDropdownMode THEN w
  ELSE [createDropdown(w) EXCEPT !.rendered = "message",
                                 !.isDropdownVisible = TRUE]

\* filterAndShowPromptsWithBestMatch once this.filteredPrompts holds the
\* ranking of query
showFilteredPrompts(w, query) ==
  LET w2 == IF w.dropdown = 0 \/ ~w.isDropdownVisible
            THEN [createDropdown(w) EXCEPT !.isDropdownVisible = TRUE]
            ELSE w
      w3 == renderDropdown(w2)
  IN  IF w.filteredPrompts = << >> /\ Trim(ToLowerCase(query)) # << >>
      THEN showNoMatchesMessage(w)
      ELSE IF Len(w.filteredPrompts) > 0
           THEN updateSelection([w3 EXCEPT !.selectedIndex = 0])
           ELSE w3

filterAndShowPromptsWithBestMatch(w, query) ==
  IF ~w.isInDropdownMode THEN w
  ELSE IF Len(w.settings.prompts) = 0 THEN showNoPromptsMessage(w)
  ELSE showFilteredPrompts(
         [w EXCEPT !.filterValue = << >>,
                   !.filteredPrompts = RankPrompts(query, w.settings.prompts)],
         query)

\* this.selectedIndex = this.filteredPrompts.length > 0 ? 0 : -1
selectFirst(w) ==
  [w EXCEPT !.selectedIndex = IF Len(w.filteredPrompts) > 0 THEN 0 ELSE -1]

\* Apply internal filter based on filterValue
applyInternalFilter(w) ==
  IF Len(w.settings.prompts) = 0 THEN w
  ELSE renderDropdown(selectFirst(
         [w EXCEPT !.filteredPrompts =
                      RankPrompts(w.filterValue, w.settings.prompts)]))

(***************************************************************************)
(* Trigger detection and the Filtering state                               *)
(***************************************************************************)
\* the offset just past the last blank character of a text, 0 without one
AfterLastWhitespace(beforeCursor) ==
  LET blanks == { i \in 1..Len(beforeCursor) : IsWhitespace(beforeCursor[i]) }
  IN  IF blanks = {} THEN 0 ELSE CHOOSE i \in blanks : \A j \in blanks : j <= i

\* the start of the hotkey span: just past the last ' ' before the cursor
HotkeyStartPosition(beforeCursor) == LastIndexOf(beforeCursor, <<" ">>) + 1

activateDropdownMode(w, type, startPosition) ==
  IF Len(w.settings.prompts) = 0 THEN showNoPromptsMessage(w)
  ELSE
    LET w1 == [w EXCEPT !.isInDropdownMode = TRUE, !.dropdownModeType = type]
        cursorPos == getCursorPosition(w1, w1.activeInput)
        value == getInputValue(w1, w1.activeInput)
    IN  IF type = "hotkey"
        THEN filterAndShowPromptsWithBestMatch(
               [w1 EXCEPT !.dropdownModeLastCursorPos = cursorPos,
                          !.dropdownModeStartPosition =
                             HotkeyStartPosition(Substring(value, 0, cursorPos))],
               << >>)
        ELSE IF type = "textTrigger"
        THEN LET start == startPosition + Len(w1.settings.textTrigger)
             IN  filterAndShowPromptsWithBestMatch(
                   [w1 EXCEPT !.dropdownModeStartPosition = start,
                              !.dropdownModeLastCursorPos = cursorPos],
                   Substring(value, start, cursorPos))
        ELSE w1

\* checkTextTrigger looking at the first occurrence before the cursor
TriggerIndexFirst(value, cursorPos, trigger) ==
  LET beforeCursor == Substring(value, 0, cursorPos)
      found == Occurrences(beforeCursor, trigger)
      triggerIndex == IF found = {} THEN -1
                      ELSE CHOOSE i \in found : \A j \in found : i <= j
  IN  IF trigger = << >> \/ triggerIndex = -1 THEN -1
      ELSE IF /\ triggerIndex = 0 \/ IsWhitespace(beforeCursor[triggerIndex])
              /\ cursorPos >= triggerIndex + Len(trigger)
           THEN triggerIndex
           ELSE -1

\* checkTextTrigger without its guard on an empty trigger: the empty string
\* is found at the cursor
TriggerIndexUnguarded(value, cursorPos, trigger) ==
  LET beforeCursor == Substring(value, 0, cursorPos)
      triggerIndex == IF trigger = << >> THEN Len(beforeCursor)
                      ELSE LastIndexOf(beforeCursor, trigger)
  IN  IF triggerIndex = -1 THEN -1
      ELSE IF /\ triggerIndex = 0 \/ IsWhitespace(beforeCursor[triggerIndex])
              /\ cursorPos >= triggerIndex + Len(trigger)
           THEN triggerIndex
           ELSE -1

\* the offset checkTextTrigger passes to activateDropdownMode, -1 when it
\* does not activate
TriggerIndex(value, cursorPos, trigger) ==
  LET beforeCursor == Substring(value, 0, cursorPos)
      triggerIndex == LastIndexOf(beforeCursor, trigger)
  IN  IF trigger = << >> \/ triggerIndex = -1 THEN -1
      ELSE IF /\ triggerIndex = 0 \/ IsWhitespace(beforeCursor[triggerIndex])
              /\ cursorPos >= triggerIndex + Len(trigger)
           THEN triggerIndex
           ELSE -1

checkTextTrigger(w, value, cursorPos) ==
  LET triggerIndex == TriggerIndex(value, cursorPos, w.settings.textTrigger)
  IN  IF triggerIndex = -1 THEN w
      ELSE activateDropdownMode(w, "textTrigger", triggerIndex)

handleDropdownModeInput(w, value, cursorPos) ==
  LET w1 == [w EXCEPT !.dropdownModeLastCursorPos = cursorPos]
      trigger == w1.settings.textTrigger
      triggerStart == w1.dropdownModeStartPosition - Len(trigger)
  IN  IF cursorPos < w1.dropdownModeStartPosition THEN resetDropdownMode(w1)
      ELSE IF /\ w1.dropdownModeType = "textTrigger"
              /\ Substring(value, triggerStart, w1.dropdownModeStartPosition) # trigger
           THEN resetDropdownMode(w1)
           ELSE filterAndShowPromptsWithBestMatch(
                  w1, Substring(value, w1.dropdownModeStartPosition, cursorPos))

\* handleInput for an input event whose target is surface input
handleInput(w, input) ==
  IF w.justInsertedPrompt THEN w
  ELSE IF w.isInDropdownMode
       THEN handleDropdownModeInput(w, getInputValue(w, input),
                                    getCursorPosition(w, input))
       ELSE checkTextTrigger(w, getInputValue(w, input),
                             getCursorPosition(w, input))

(***************************************************************************)
(* Placeholder collection and insertion                                    *)
(***************************************************************************)
showPlaceholderForm(w, promptContent, phs) ==
  SetTimeout(
    renderDropdown(
      [w EXCEPT !.isInPlaceholderMode = TRUE,
                !.currentPromptContent = promptContent,
                !.placeholders = phs,
                !.currentPlaceholderIndex = 0,
                !.placeholderValues =
                   [n \in { phs[i].name : i \in 1..Len(phs) } |->
                      (CHOOSE ph \in { phs[i] : i \in 1..Len(phs) } :
                         ph.name = n).defaultValue]]),
    "formPosition", FORM_POSITION_DELAY, Null)

\* content.replace(/\r?\n/g, ' ').replace(/\s+/g, ' ') from offset pos on:
\* every run of blanks becomes one space
RECURSIVE CollapseBlanks(_, _)
CollapseBlanks(s, pos) ==
  IF pos >= Len(s) THEN << >>
  ELSE IF IsWhitespace(s[pos + 1])
       THEN <<" ">> \o CollapseBlanks(s, RunEnd(s, pos, { c \in
                         { s[k] : k \in 1..Len(s) } : ~IsWhitespace(c) }))
       ELSE <<s[pos + 1]>> \o CollapseBlanks(s, pos + 1)

\* the content as prepared for the surface: one line for an INPUT
ProcessedContent(content, input) ==
  IF TagName(input) = "INPUT" THEN Trim(CollapseBlanks(content, 0)) ELSE content

\* the value-based replacement of insertPrompt: [newValue, newCursorPos]
ValueReplacement(w, currentValue, processedContent) ==
  LET cursorPos ==
        Clamp(IF w.isInDropdownMode /\ w.dropdownModeLastCursorPos >= 0
              THEN w.dropdownModeLastCursorPos
              ELSE getCursorPosition(w, w.activeInput),
              0, Len(currentValue))
      beforeStart == Substring(currentValue, 0, w.dropdownModeStartPosition)
      afterCursor == SubstringFrom(currentValue, cursorPos)
      triggerStart == w.dropdownModeStartPosition - Len(w.settings.textTrigger)
  IN  IF w.isInDropdownMode /\ w.dropdownModeStartPosition >= 0
      THEN IF w.dropdownModeType = "textTrigger" /\ w.settings.textTrigger # << >>
           THEN [newValue |-> Substring(currentValue, 0, triggerStart)
                                \o processedContent \o afterCursor,
                 newCursorPos |-> triggerStart + Len(processedContent)]
           ELSE [newValue |-> beforeStart \o processedContent \o afterCursor,
                 newCursorPos |-> Len(beforeStart) + Len(processedContent)]
      ELSE [newValue |-> Substring(currentValue, 0, cursorPos)
                           \o processedContent \o afterCursor,
            newCursorPos |-> cursorPos + Len(processedContent)]

\* insertPrompt for an INPUT or TEXTAREA.  The input event setInputValue
\* dispatches is handled while justInsertedPrompt is set, so handleInput
\* ignores it.
\* insertPrompt from setInputValue on, r the replacement it computed
setValueAndReset(w, input, r) ==
  LET w2 == handleInput([w EXCEPT !.text[input] = r.newValue,
                                  !.cursor[input] = Len(r.newValue)], input)
      w3 == [w2 EXCEPT !.cursor[input] =
                          SetSelectionRange(r.newCursorPos, Len(r.newValue))]
      w4 == SetTimeout(w3, "insertInput", INSERT_INPUT_DELAY, input)
      w5 == SetTimeout(resetDropdownMode(w4), "guardOff", GUARD_DELAY, Null)
      w6 == SetTimeout(w5, "insertFocus", INSERT_FOCUS_DELAY, input)
  IN  [w6 EXCEPT !.activeInput = Null]

\* the span the contenteditable branch of insertPrompt selects and deletes
\* before it inserts: [start, end]
RichSpan(w, currentText) ==
  LET cursorPos == IF w.isInDropdownMode /\ w.dropdownModeLastCursorPos >= 0
                   THEN w.dropdownModeLastCursorPos
                   ELSE Len(currentText)
      start0 == IF w.dropdownModeType = "textTrigger"
                   /\ w.settings.textTrigger # << >>
                THEN w.dropdownModeStartPosition - Len(w.settings.textTrigger)
                ELSE w.dropdownModeStartPosition
      start == Clamp(start0, 0, Len(currentText))
  IN  [start |-> start,
       end |-> Max(start, Min(cursorPos, Len(currentText)))]

\* setSelectionByOffsets and Range.deleteContents on the span
deleteSpan(w, input) ==
  LET currentText == getInputValue(w, input)
      span == RichSpan(w, currentText)
  IN  IF w.isInDropdownMode /\ w.dropdownModeStartPosition >= 0
      THEN [w EXCEPT !.text[input] = Substring(currentText, 0, span.start)
                                       \o SubstringFrom(currentText, span.end),
                     !.cursor[input] = span.start]
      ELSE w

\* the text put at the selection, by execCommand or by Range.insertNode
insertAtSelection(w, input, processedContent) ==
  LET t == w.text[input]
      c == Clamp(w.cursor[input], 0, Len(t))
  IN  [w EXCEPT !.text[input] = Substring(t, 0, c) \o processedContent
                                  \o SubstringFrom(t, c),
                !.cursor[input] = c + Len(processedContent)]

\* insertPrompt for a contenteditable surface.  How execCommand('insertText')
\* and the Range fallback turn out is the page's: on a "native" page
\* execCommand inserts and dispatches its input event, on a "manual" page it
\* fails and the fallback inserts, on a "broken" page it fails and the
\* fallback throws.
insertRich(w, input, processedContent) ==
  LET w1 == focusElement([w EXCEPT !.justInsertedPrompt = TRUE], input)
      w2 == deleteSpan(w1, input)
      w3 == IF w.env.editor = "native"
            THEN handleInput(insertAtSelection(w2, input, processedContent), input)
            ELSE insertAtSelection(w2, input, processedContent)
      w4 == handleInput(w3, input)
      w5 == SetTimeout(resetDropdownMode(w4), "guardOff", GUARD_DELAY, Null)
      w6 == SetTimeout(w5, "insertFocus", RICH_FOCUS_DELAY, input)
  IN  IF w.env.editor = "broken" THEN w2
      ELSE [w6 EXCEPT !.activeInput = Null]

insertPrompt(w, content) ==
  IF w.activeInput = Null \/ w.isDestroyed \/ content = << >> THEN w
  ELSE IF w.activeInput \notin w.attached THEN [w EXCEPT !.activeInput = Null]
  ELSE IF isContentEditable(w.activeInput)
  THEN insertRich(w, w.activeInput, ProcessedContent(content, w.activeInput))
  ELSE setValueAndReset(
         [w EXCEPT !.justInsertedPrompt = TRUE], w.activeInput,
         ValueReplacement(w, getInputValue(w, w.activeInput),
                          ProcessedContent(content, w.activeInput)))

insertSelectedPrompt(w) ==
  IF w.selectedIndex >= 0 /\ w.selectedIndex < Len(w.filteredPrompts)
  THEN LET prompt == w.filteredPrompts[w.selectedIndex + 1]
           phs == extractPlaceholders(prompt.content)
       IN  IF Len(phs) > 0 THEN showPlaceholderForm(w, prompt.content, phs)
           ELSE insertPrompt(w, prompt.content)
  ELSE w

\* onSelectPrompt of the list: the click on the item at index
onSelectPrompt(w, index) ==
  IF index >= 0 /\ index < Len(w.filteredPrompts)
  THEN insertSelectedPrompt([w EXCEPT !.selectedIndex = index])
  ELSE w

\* the text insertPromptWithPlaceholders hands to insertPrompt
FinalContent(w) ==
  SubstituteFrom(w.currentPromptContent, w.placeholders, w.placeholderValues, 1)

insertPromptWithPlaceholders(w) ==
  LET w1 == resetPlaceholderMode(w)
  IN  insertPrompt(
        [w1 EXCEPT !.isInDropdownMode = w.isInDropdownMode,
                   !.dropdownModeType = w.dropdownModeType,
                   !.dropdownModeStartPosition = w.dropdownModeStartPosition,
                   !.dropdownModeLastCursorPos = w.dropdownModeLastCursorPos],
        FinalContent(w))

exitPlaceholderMode(w) ==
  SetTimeout(filterAndShowPromptsWithBestMatch(resetPlaceholderMode(w), << >>),
             "exitFocus", EXIT_FOCUS_DELAY, Null)

\* a next that wraps around at the last placeholder
navigateToNextWrapping(w) ==
  SetTimeout(renderDropdown([w EXCEPT !.currentPlaceholderIndex =
                                         (@ + 1) % Len(w.placeholders)]),
             "navFocus", NAV_FOCUS_DELAY, Null)

navigateToNextPlaceholder(w) ==
  IF w.currentPlaceholderIndex < Len(w.placeholders) - 1
  THEN SetTimeout(renderDropdown([w EXCEPT !.currentPlaceholderIndex = @ + 1]),
                  "navFocus", NAV_FOCUS_DELAY, Null)
  ELSE w

navigateToPreviousPlaceholder(w) ==
  IF w.currentPlaceholderIndex > 0
  THEN SetTimeout(renderDropdown([w EXCEPT !.currentPlaceholderIndex = @ - 1]),
                  "navFocus", NAV_FOCUS_DELAY, Null)
  ELSE w

selectNext(w) ==
  IF w.selectedIndex < Len(w.filteredPrompts) - 1
  THEN updateSelection([w EXCEPT !.selectedIndex = @ + 1])
  ELSE w

selectPrevious(w) ==
  IF w.selectedIndex > 0
  THEN updateSelection([w EXCEPT !.selectedIndex = @ - 1])
  ELSE IF w.selectedIndex = -1 /\ Len(w.filteredPrompts) > 0
       THEN updateSelection([w EXCEPT !.selectedIndex = Len(w.filteredPrompts) - 1])
       ELSE w

(***************************************************************************)
(* Keyboard events                                                         *)
(***************************************************************************)
\* KeyboardEvent.key of the named keys
Enter == <<"E","n","t","e","r">>
ArrowDown == <<"A","r","r","o","w","D","o","w","n">>
ArrowUp == <<"A","r","r","o","w","U","p">>
ArrowLeft == <<"A","r","r","o","w","L","e","f","t">>
ArrowRight == <<"A","r","r","o","w","R","i","g","h","t">>
Escape == <<"E","s","c","a","p","e">>
Tab == <<"T","a","b">>
Backspace == <<"B","a","c","k","s","p","a","c","e">>
Delete == <<"D","e","l","e","t","e">>

KeyEvent(key, ctrl, shift) ==
  [key |-> key, ctrlKey |-> ctrl, shiftKey |-> shift,
   altKey |-> FALSE, metaKey |-> FALSE]

\* String.prototype.split(sep) for a one-character separator
RECURSIVE Split(_, _)
Split(s, sep) ==
  LET e == RunEnd(s, 0, {sep})
  IN  IF e >= Len(s) THEN <<s>>
      ELSE <<Substring(s, 0, e)>> \o Split(SubstringFrom(s, e + 1), sep)

\* /mac/i.test(navigator.platform): the page runs on a non-Apple platform
IsMac == FALSE

\* the synonyms matchesHotkey maps
MapToken(t, isMac) ==
  IF t = <<"m","o","d">> THEN (IF isMac THEN <<"m","e","t","a">> ELSE <<"c","t","r","l">>)
  ELSE IF t = <<"c","m","d">> THEN <<"m","e","t","a">>
  ELSE IF t = <<"c","o","m","m","a","n","d">> THEN <<"m","e","t","a">>
  ELSE IF t = <<"c","o","n","t","r","o","l">> THEN <<"c","t","r","l">>
  ELSE IF t = <<"o","p","t","i","o","n">> THEN <<"a","l","t">>
  ELSE t

\* matchesHotkey letting modifiers beyond the required ones pass
matchesHotkeyLoose(event, hotkey, isMac) ==
  IF hotkey = << >> THEN FALSE
  ELSE
    LET rawTokens == Split(hotkey, "+")
        mappedTokens == [i \in 1..Len(rawTokens) |->
                           MapToken(ToLowerCase(Trim(rawTokens[i])), isMac)]
        modifiers == { mappedTokens[i] : i \in 1..(Len(mappedTokens) - 1) }
        mainKey == mappedTokens[Len(mappedTokens)]
        eventKey == ToLowerCase(event.key)
        requireCtrl == <<"c","t","r","l">> \in modifiers
        requireShift == <<"s","h","i","f","t">> \in modifiers
        requireAlt == <<"a","l","t">> \in modifiers
        requireMeta == <<"m","e","t","a">> \in modifiers
        hasOnlyRequiredModifiers ==
          /\ requireCtrl => event.ctrlKey
          /\ requireShift => event.shiftKey
          /\ requireAlt => event.altKey
          /\ requireMeta => event.metaKey
        ctrlMetaCompat ==
          isMac /\ requireCtrl /\ ~requireMeta /\ event.metaKey /\ ~event.ctrlKey
    IN  eventKey = mainKey /\ (hasOnlyRequiredModifiers \/ ctrlMetaCompat)

matchesHotkey(event, hotkey, isMac) ==
  IF hotkey = << >> THEN FALSE
  ELSE
    LET rawTokens == Split(hotkey, "+")
        mappedTokens == [i \in 1..Len(rawTokens) |->
                           MapToken(ToLowerCase(Trim(rawTokens[i])), isMac)]
        modifiers == { mappedTokens[i] : i \in 1..(Len(mappedTokens) - 1) }
        mainKey == mappedTokens[Len(mappedTokens)]
        eventKey == ToLowerCase(event.key)
        requireCtrl == <<"c","t","r","l">> \in modifiers
        requireShift == <<"s","h","i","f","t">> \in modifiers
        requireAlt == <<"a","l","t">> \in modifiers
        requireMeta == <<"m","e","t","a">> \in modifiers
        hasOnlyRequiredModifiers ==
          /\ event.ctrlKey = requireCtrl
          /\ event.shiftKey = requireShift
          /\ event.altKey = requireAlt
          /\ event.metaKey = requireMeta
        ctrlMetaCompat ==
          isMac /\ requireCtrl /\ ~requireMeta /\ event.metaKey /\ ~event.ctrlKey
    IN  eventKey = mainKey /\ (hasOnlyRequiredModifiers \/ ctrlMetaCompat)

\* findActiveEditableElement: the focused element when it is editable (a
\* field of the form is an INPUT too); the page holds no selection outside
\* the focused element
findActiveEditableElement(w) ==
  IF w.focus \in Surfaces \cup Fields THEN w.focus ELSE Null

isFromOurDropdown(w, target) == w.dropdown # 0 /\ target \in OwnUI
isFromActiveInputInDropdownMode(w, target) ==
  w.isInDropdownMode /\ target = w.activeInput

PreventDefault(w) == [w EXCEPT !.prevented = TRUE]

handleOurKeydownEvents(w, e, target) ==
  IF w.isInPlaceholderMode
  THEN IF target \in Fields \/ isFromOurDropdown(w, target)
       THEN IF e.key = Enter THEN insertPromptWithPlaceholders(w)
            ELSE IF e.key = Tab
                 THEN IF e.shiftKey
                      THEN navigateToPreviousPlaceholder(PreventDefault(w))
                      ELSE navigateToNextPlaceholder(PreventDefault(w))
            ELSE IF e.key = ArrowDown THEN navigateToNextPlaceholder(w)
            ELSE IF e.key = ArrowUp THEN navigateToPreviousPlaceholder(w)
            ELSE IF e.key = Escape THEN exitPlaceholderMode(w)
            ELSE w
       ELSE w
  ELSE IF matchesHotkey(e, w.settings.hotkey, IsMac)
  THEN LET editable == findActiveEditableElement(w)
       IN  IF editable # Null
           THEN IF w.isDropdownVisible
                THEN resetDropdownMode(PreventDefault(w))
                ELSE SetTimeout([PreventDefault(w) EXCEPT !.activeInput = editable],
                                "activate", ACTIVATION_DELAY, Null)
           ELSE w
  ELSE IF /\ w.isDropdownVisible
          /\ \/ isFromOurDropdown(w, target)
             \/ isFromActiveInputInDropdownMode(w, target)
  THEN IF e.key = Enter
       THEN LET w1 == PreventDefault(w)
            IN  IF /\ w1.selectedIndex >= 0
                   /\ w1.selectedIndex < Len(w1.filteredPrompts)
                THEN insertSelectedPrompt(w1)
                ELSE IF Len(w1.filteredPrompts) > 0
                     THEN insertSelectedPrompt(
                            updateSelection([w1 EXCEPT !.selectedIndex = 0]))
                     ELSE w1
       ELSE IF e.key = ArrowDown THEN selectNext(PreventDefault(w))
       ELSE IF e.key = ArrowUp THEN selectPrevious(PreventDefault(w))
       ELSE IF e.key = Escape
            THEN LET w1 == resetDropdownMode(PreventDefault(w))
                 IN  IF w.activeInput \in w.attached
                     THEN SetTimeout(w1, "escFocus", ESCAPE_FOCUS_DELAY, w.activeInput)
                     ELSE w1
       ELSE w
  ELSE w

keysWeHandle == {Enter, ArrowDown, ArrowUp, Escape, Tab}

\* the capturing keydown listener on the document; target is e.target
handleKeydown(w, e, target) ==
  LET isFromOurElements ==
        \/ isFromOurDropdown(w, target)
        \/ (w.activeInput # Null /\ target = w.activeInput)
        \/ target \in Fields
  IN  IF w.isDropdownVisible \/ w.isInPlaceholderMode
      THEN IF e.key \in keysWeHandle /\ isFromOurElements
           THEN handleOurKeydownEvents(PreventDefault(w), e, target)
           ELSE IF e.key \in keysWeHandle /\ w.isDropdownVisible THEN w
           ELSE IF w.isDropdownVisible /\ ~w.isInPlaceholderMode
                THEN IF Len(e.key) = 1
                     THEN PreventDefault(renderDropdown(applyInternalFilter(
                            [w EXCEPT !.filterValue = @ \o e.key])))
                     ELSE IF e.key = Backspace
                          THEN IF w.filterValue # << >>
                               THEN PreventDefault(renderDropdown(applyInternalFilter(
                                      [w EXCEPT !.filterValue =
                                         SubSeq(@, 1, Len(@) - 1)])))
                               ELSE PreventDefault(w)
                          ELSE w
                ELSE w
      ELSE handleOurKeydownEvents(w, e, target)

(***************************************************************************)
(* What the browser does with an event the engine did not prevent          *)
(***************************************************************************)
\* the user, or the browser on their behalf, replaces the characters
\* [from, to) of surface s by chunk; the input event that follows reaches
\* the input listener on the document
EditSurface(w, s, from, to, chunk) ==
  handleInput([w EXCEPT !.text[s] = Splice(@, from, to, chunk),
                        !.cursor[s] = from + Len(chunk)], s)

\* onInput of a field of the form: onPlaceholderChange(name, value)
onPlaceholderChange(w, name, value) ==
  [w EXCEPT !.placeholderValues =
              [n \in (DOMAIN @) \cup {name} |-> IF n = name THEN value ELSE @[n]]]

\* the field of the form that target is, when the form shows it
IsLiveField(w, target) ==
  /\ target \in Fields
  /\ w.isInPlaceholderMode /\ w.dropdown # 0 /\ w.rendered = "form"
  /\ FieldIndex(target) < Len(w.placeholders)

\* the edit a key makes in a text control of the given tag holding text t
\* with the caret at c: the characters [from, to) become chunk; to is -1
\* when the key edits nothing
KeyEdit(e, tag, t, c, maxLen) ==
  IF Len(e.key) = 1 /\ ~e.ctrlKey /\ ~e.metaKey /\ ~e.altKey
  THEN [from |-> c, to |-> IF Len(t) < maxLen THEN c ELSE -1, chunk |-> e.key]
  ELSE IF e.key = Enter /\ tag \in {"TEXTAREA", "DIV"}
  THEN [from |-> c, to |-> IF Len(t) < maxLen THEN c ELSE -1, chunk |-> <<"\n">>]
  ELSE IF e.key = Backspace /\ c > 0
  THEN [from |-> c - 1, to |-> c, chunk |-> << >>]
  ELSE IF e.key = Delete /\ c < Len(t)
  THEN [from |-> c, to |-> c + 1, chunk |-> << >>]
  ELSE [from |-> c, to |-> -1, chunk |-> << >>]

DefaultAction(w, e, target) ==
  IF w.prevented THEN w
  ELSE IF target \in Surfaces
  THEN LET t == w.text[target]
           c == w.cursor[target]
           edit == KeyEdit(e, TagName(target), t, c, w.env.maxLen)
       IN  IF edit.to >= 0
           THEN EditSurface(w, target, edit.from, edit.to, edit.chunk)
           ELSE IF e.key = ArrowLeft /\ c > 0
           THEN [w EXCEPT !.cursor[target] = c - 1]
           ELSE IF e.key = ArrowRight /\ c < Len(t)
           THEN [w EXCEPT !.cursor[target] = c + 1]
           ELSE w
  ELSE IF IsLiveField(w, target)
  THEN LET name == w.placeholders[FieldIndex(target) + 1].name
           v == w.placeholderValues[name]
       IN  IF Len(e.key) = 1 /\ ~e.ctrlKey /\ ~e.metaKey /\ ~e.altKey
           THEN IF Len(v) < MaxFieldLen
                THEN onPlaceholderChange(w, name, v \o e.key) ELSE w
           ELSE IF e.key = Backspace /\ v # << >>
           THEN onPlaceholderChange(w, name, SubSeq(v, 1, Len(v) - 1))
           ELSE w
  ELSE w

\* the click listener on the document for a click on x outside the dropdown
OnClick(w, x) ==
  IF w.dropdown # 0 /\ x # w.activeInput
  THEN hideDropdown(IF w.isInPlaceholderMode THEN resetPlaceholderMode(w) ELSE w)
  ELSE w

(***************************************************************************)
(* Timer callbacks                                                         *)
(***************************************************************************)
\* focusCurrentPlaceholder, its animation frames included
focusCurrentPlaceholder(w) ==
  IF /\ w.isInPlaceholderMode /\ w.dropdown # 0 /\ w.rendered = "form"
     /\ w.currentPlaceholderIndex < Len(w.placeholders)
  THEN MoveFocus(w, FieldOf(w.currentPlaceholderIndex))
  ELSE w

\* the callback of timer t run in world w (t already taken off the list)
RunTimer(w, t) ==
  CASE t.kind = "activate" -> activateDropdownMode(w, "hotkey", 0)
    [] t.kind = "focusCheck" ->
         IF ~shouldKeepDropdownOpen(w)
         THEN [resetDropdownMode(w) EXCEPT !.activeInput = Null]
         ELSE w
    [] t.kind = "hideRemove" ->
         [w EXCEPT !.focus = IF w.dropdown # 0 THEN FocusAfterRemoval(w, OwnUI) ELSE @,
                   !.rendered = IF w.dropdown # 0 THEN "none" ELSE @,
                   !.dropdown = 0,
                   !.filteredPrompts = << >>,
                   !.isHiding = FALSE]
    [] t.kind = "hideFocus" ->
         IF shouldRestoreFocus(w) /\ t.el \in w.attached
         THEN MoveFocus(w, t.el) ELSE w
    [] t.kind = "escFocus" -> focusElement(w, t.el)
    [] t.kind = "guardOff" -> [w EXCEPT !.justInsertedPrompt = FALSE]
    [] t.kind = "insertFocus" -> focusElement(w, t.el)
    [] t.kind = "insertInput" ->
         IF t.el \in w.attached THEN handleInput(w, t.el) ELSE w
    [] t.kind = "autoHide" -> hideDropdown(w)
    [] t.kind = "formPosition" ->
         SetTimeout(w, "formFocus", FORM_FOCUS_DELAY, Null)
    [] t.kind \in {"formFocus", "navFocus"} -> focusCurrentPlaceholder(w)
    [] t.kind = "exitFocus" ->
         IF w.dropdown # 0 THEN MoveFocus(w, "dropdown") ELSE w
    [] t.kind = "hoverScroll" -> w

(***************************************************************************)
(* The state machine                                                       *)
(***************************************************************************)
\* the page and its user: what can be focused, what is typed and pasted, how
\* long the texts get, how many timers may be pending when a key is pressed,
\* and what the editor of a rich-text surface does with an insertion.  A page
\* with one surface; a page with two on which the user types little; and a
\* page with one surface on which the user types words and pastes a tab, and
\* no trigger
OneSurface ==
  [targets |-> {"A", "body"}, chars |-> {":", "g", " "},
   chunks |-> { <<":", "g">> }, maxLen |-> MaxLen, maxPending |-> MaxPending,
   maxText |-> MaxText, editor |-> "native"]
TwoSurfaces ==
  [targets |-> {"A", "B", "body"}, chars |-> {":"},
   chunks |-> { <<":">> }, maxLen |-> MaxLenTwo, maxPending |-> MaxPendingTwo,
   maxText |-> MaxText, editor |-> "native"]
Lines ==
  [targets |-> {"A", "body"}, chars |-> {"g", " "},
   chunks |-> { <<"\t">> }, maxLen |-> MaxLen, maxPending |-> MaxPending,
   maxText |-> MaxText, editor |-> "native"]
\* a page with one surface on which the user types little
Brief ==
  [targets |-> {"A", "body"}, chars |-> {":"},
   chunks |-> { <<":">> }, maxLen |-> MaxLenTwo, maxPending |-> MaxPending,
   maxText |-> MaxText, editor |-> "native"]
\* a page with one rich-text surface, its editor of one of three kinds
EditorKinds == {"native", "manual", "broken"}
RichText(kind) ==
  [targets |-> {"E", "body"}, chars |-> {":", "g"},
   chunks |-> { <<":">> }, maxLen |-> MaxLenTwo, maxPending |-> MaxPending,
   maxText |-> MaxText, editor |-> kind]

\* the keys the user presses
NamedKeys == {Enter, ArrowDown, ArrowUp, ArrowLeft, Escape, Tab, Backspace, Delete}
FieldChars == {"g"}
KeyEvents ==
  { KeyEvent(<<c>>, FALSE, FALSE) : c \in env.chars }
    \cup { KeyEvent(k, FALSE, FALSE) : k \in NamedKeys }
    \cup { KeyEvent(Tab, FALSE, TRUE), KeyEvent(<<"P">>, TRUE, TRUE) }

\* where init() stands: awaiting the reply to getSettings ("send"), the
\* delay before the next attempt ("retryDelay"), the delay after the loop
\* ("focusDelay"), or returned ("done"); retries is its local variable
MAX_RETRIES == 5
InitReturned == [step |-> "done", retries |-> MAX_RETRIES]

\* the fields the constructor sets
\* the prompts in storage, each with the id addPrompt gave it
StoredPrompts ==
  [i \in 1..Len(LoadedSettings.prompts) |->
     [id |-> i - 1, name |-> LoadedSettings.prompts[i].name,
      content |-> LoadedSettings.prompts[i].content]]

\* the background script with no request in hand: the settings in storage,
\* Date.now(), the requests received, the settings updates to be broadcast
ProviderIdle ==
  [stored |-> StoredPrompts, clock |-> Len(StoredPrompts),
   requests |-> << >>, outbox |-> << >>]

EngineFields ==
  /\ activeInput = Null
  /\ dropdown = 0
  /\ selectedIndex = -1
  /\ filteredPrompts = << >>
  /\ filterValue = << >>
  /\ isDropdownVisible = FALSE
  /\ isHiding = FALSE
  /\ isInDropdownMode = FALSE
  /\ dropdownModeStartPosition = -1
  /\ dropdownModeType = Null
  /\ dropdownModeLastCursorPos = -1
  /\ justInsertedPrompt = FALSE
  /\ isInPlaceholderMode = FALSE
  /\ currentPromptContent = << >>
  /\ placeholders = << >>
  /\ placeholderValues = << >>
  /\ currentPlaceholderIndex = 0
  /\ rendered = "none"
  /\ timers = << >>
  /\ isDestroyed = FALSE
  /\ provider = ProviderIdle

\* the engine once the content script is constructed and init() has returned
EngineConstructed == EngineFields /\ initState = InitReturned

\* the engine constructed in a page whose surfaces are empty
Constructed ==
  /\ EngineConstructed
  /\ text = [s \in Surfaces |-> << >>]
  /\ cursor = [s \in Surfaces |-> 0]
  /\ attached = Surfaces
  /\ focus = "body"

\* the state once the content script has loaded its settings
Loaded == settings = LoadedSettings /\ Constructed

Init == Loaded /\ env = OneSurface
InitTwo == Loaded /\ env = TwoSurfaces
InitLines == Loaded /\ env = Lines
InitRich == Loaded /\ \E kind \in EditorKinds : env = RichText(kind)
InitSettings ==
  /\ settings \in {EmptyLibrary, NoTextTrigger, NoHotkey}
  /\ Constructed /\ env = Brief

\* a key is pressed; the event's target is the focused element
Keydown ==
  \E e \in KeyEvents :
    /\ Len(timers) <= env.maxPending
    /\ (isDropdownVisible /\ Len(e.key) = 1) => Len(filterValue) < MaxFilterLen
    /\ focus \in Fields => (e.key \in NamedKeys \/ e.key \in { <<c>> : c \in FieldChars })
    /\ focus = "control" => (Len(e.key) # 1 /\ e.key # Backspace)
    /\ Becomes(DefaultAction(handleKeydown(World, e, focus), e, focus))

\* a text is pasted at the caret of the focused surface
Paste ==
  \E chunk \in env.chunks :
    /\ Len(timers) <= env.maxPending
    /\ focus \in Surfaces
    /\ Len(text[focus]) + Len(chunk) <= env.maxLen
    /\ Becomes(EditSurface(World, focus, cursor[focus], cursor[focus], chunk))

\* the focus moves without a click: the keyboard, a script of the page, or
\* the window losing focus
FocusMove ==
  \E x \in env.targets \cup Fields :
    /\ Len(timers) <= MaxPendingFocus
    /\ x # focus
    /\ x \in Surfaces => x \in attached
    /\ x \in Fields => IsLiveField(World, x)
    /\ Becomes(MoveFocus(World, x))

\* the user clicks on a surface or on the page outside every surface
Click ==
  \E x \in env.targets :
    /\ Len(timers) <= MaxPendingFocus
    /\ x \in Surfaces => x \in attached
    /\ Becomes(OnClick(MoveFocus(World, x), x))

\* the user clicks on an item of the list the dropdown shows: the item takes
\* the focus and its onClick runs; the click listener on the document leaves
\* a click on an item alone
ItemClick ==
  \E index \in 0..(Len(filteredPrompts) - 1) :
    /\ Len(timers) <= MaxPendingFocus
    /\ dropdown # 0 /\ rendered = "list"
    /\ Becomes(onSelectPrompt(MoveFocus(World, "control"), index))

\* the user clicks on a button of the form: the back button, whose onClick
\* stops the event, or the Insert button, which the dropdown still contains
\* when the click reaches the listener on the document
FormClick ==
  \E button \in {"back", "insert"} :
    /\ Len(timers) <= MaxPendingFocus
    /\ dropdown # 0 /\ rendered = "form"
    /\ Becomes(IF button = "back"
               THEN exitPlaceholderMode(MoveFocus(World, "control"))
               ELSE insertPromptWithPlaceholders(MoveFocus(World, "control")))

\* a script of the page takes the surface of the session out of the
\* document; an element that leaves the document loses the focus to the
\* body, and no focusout is dispatched
Detach ==
  /\ Len(timers) <= MaxPendingFocus
  /\ isInDropdownMode
  /\ activeInput \in attached
  /\ Becomes([World EXCEPT !.attached = @ \ {activeInput},
                           !.focus = IF @ = activeInput THEN "body" ELSE @])

\* a pending timer fires: the ResourceManager runs its callback unless it
\* was destroyed
FireTimer ==
  \E i \in 1..Len(timers) :
    /\ CanFire(timers, i)
    /\ Becomes(IF isDestroyed THEN [World EXCEPT !.timers = RemoveAt(timers, i)]
               ELSE RunTimer([World EXCEPT !.timers = RemoveAt(timers, i)],
                             timers[i]))

Next ==
  \/ Keydown \/ Paste \/ FocusMove \/ Click \/ ItemClick \/ FormClick
  \/ Detach \/ FireTimer

Spec == Init /\ [][Next]_vars
SpecTwo == InitTwo /\ [][Next]_vars
SpecLines == InitLines /\ [][Next]_vars
SpecRich == InitRich /\ [][Next]_vars
SpecSettings == InitSettings /\ [][Next]_vars

\* a page whose text field already holds a text when the content script
\* loads, for each text of the page, trigger of the settings and place the
\* user clicks into the text
Prefilled ==
  [targets |-> {"A", "body"}, chars |-> {":", "g", " "},
   chunks |-> { <<":">> }, maxLen |-> MaxPrefilled, maxPending |-> MaxPending,
   maxText |-> MaxPrefilled, editor |-> "native"]
PrefilledTexts == UNION { [1..n -> Prefilled.chars] : n \in 0..MaxPrefilled }
Triggers == { <<":">>, <<":", "g">>, <<":", ":">> }
InitPrefilled ==
  /\ \E t \in Triggers : settings = [LoadedSettings EXCEPT !.textTrigger = t]
  /\ EngineConstructed
  /\ \E v \in PrefilledTexts :
        text = [s \in Surfaces |-> IF s = "A" THEN v ELSE << >>]
  /\ cursor = [s \in Surfaces |-> 0]
  /\ attached = Surfaces
  /\ focus = "body"
  /\ env = Prefilled

\* the user clicks into the text of the field, at offset c
ClickInto ==
  \E c \in 0..Len(text["A"]) :
    /\ ~isInDropdownMode
    /\ Becomes([MoveFocus(World, "A") EXCEPT !.cursor["A"] = c])

\* an input event reaches the engine from the focused surface, the text as
\* it is
InputEvent ==
  /\ focus \in Surfaces
  /\ ~isInDropdownMode
  /\ Becomes(handleInput(World, focus))

NextPrefilled == ClickInto \/ InputEvent
SpecPrefilled == InitPrefilled /\ [][NextPrefilled]_vars

\* The browser runs every timer once its delay has passed, so the timers of
\* the oldest batch do not wait forever while newer ones fire.  TimerDue(i):
\* the timer at position i is of the oldest batch and may be the next to
\* fire.  FireDue is the part of FireTimer that fires such a timer, and
\* DueCanRun is ENABLED <<FireDue>>_vars written as a state predicate (a
\* callback never sets a timer of its own kind, so firing always changes
\* timers).  Fairness is weak fairness of FireDue with its enabling
\* condition spelled out.
TimerDue(i) == timers[i].batch = 1 /\ CanFire(timers, i)
FireDue ==
  \E i \in 1..Len(timers) :
    /\ TimerDue(i)
    /\ Becomes(RunTimer([World EXCEPT !.timers = RemoveAt(timers, i)], timers[i]))
DueCanRun ==
  \E i \in 1..Len(timers) :
    /\ TimerDue(i)
    /\ Len(RunTimer([World EXCEPT !.timers = RemoveAt(timers, i)],
                     timers[i]).timers) <= MaxTimers
Fairness == []<>(~DueCanRun) \/ []<><<FireDue>>_vars
SpecLive == Init /\ [][Next]_vars /\ Fairness

(***************************************************************************)
(* Vocabulary of the properties                                            *)
(***************************************************************************)
\* T[a:b], the characters of T from offset a up to offset b
Slice(T, a, b) == SubSeq(T, Max(a, 0) + 1, Min(b, Len(T)))

\* how many timers of a kind are pending
Pending(ts, kind) == Cardinality({ i \in 1..Len(ts) : ts[i].kind = kind })

\* the step is the user pressing key e
IsKeydown(e) == Becomes(DefaultAction(handleKeydown(World, e, focus), e, focus))
\* the step is the pending timer at position i firing
IsTimer(i) ==
  /\ i \in 1..Len(timers) /\ CanFire(timers, i)
  /\ Becomes(RunTimer([World EXCEPT !.timers = RemoveAt(timers, i)], timers[i]))

\* the step runs insertPrompt past its early returns: it sets one more
\* notification timer than it leaves
InsertionRuns == Pending(timers', "insertInput") > Pending(timers, "insertInput")

\* the content the Enter key hands to insertPrompt in the current state
EnterContent ==
  IF isInPlaceholderMode THEN FinalContent(World)
  ELSE IF selectedIndex >= 0 /\ selectedIndex < Len(filteredPrompts)
       THEN filteredPrompts[selectedIndex + 1].content
       ELSE IF Len(filteredPrompts) > 0 THEN filteredPrompts[1].content
       ELSE << >>

\* the offset at which the replacement span of the session starts
ReplaceStart ==
  IF dropdownModeType = "textTrigger"
  THEN dropdownModeStartPosition - Len(settings.textTrigger)
  ELSE dropdownModeStartPosition

PressEnter == KeyEvent(Enter, FALSE, FALSE)

(***************************************************************************)
(* Session offsets                                                         *)
(***************************************************************************)
\* C1: in every reachable state, a session that is not Idle has
\* 0 <= startOffset <= lastCursorOffset.
C1_OffsetsOrdered ==
  isInDropdownMode =>
    /\ 0 <= dropdownModeStartPosition
    /\ dropdownModeStartPosition <= dropdownModeLastCursorPos

\* a session whose startOffset lies past its lastCursorOffset
C1_SessionStartsPastCursor ==
  isInDropdownMode /\ dropdownModeStartPosition > dropdownModeLastCursorPos

(***************************************************************************)
(* Insertion                                                               *)
(***************************************************************************)
\* C2: when Enter runs the insertion for a session on a surface with text T,
\* the surface's text becomes T[0:replaceStart] + content +
\* T[lastCursorOffset:] and its cursor is at replaceStart + len(content).
C2_InsertionReplacesSpan ==
  [][(isInDropdownMode /\ InsertionRuns /\ IsKeydown(PressEnter))
       => LET s == activeInput
              T == text[s]
          IN  /\ text'[s] = Slice(T, 0, ReplaceStart) \o EnterContent
                              \o Slice(T, dropdownModeLastCursorPos, Len(T))
              /\ cursor'[s] = ReplaceStart + Len(EnterContent)]_vars

\* the step fires a pending timer of the given kind
Fires(kind) == Pending(timers', kind) < Pending(timers, kind)

\* the step opens a session from a text trigger, which only an input event does
TriggerOpens ==
  ~isInDropdownMode /\ isInDropdownMode' /\ dropdownModeType' = "textTrigger"

\* C3: every insertion leaves the session Idle with the guard armed, and
\* while the guard timer of an insertion has not fired yet no input event is
\* interpreted as a trigger.
C3_GuardWindow ==
  [][/\ InsertionRuns => (~isInDropdownMode' /\ justInsertedPrompt')
     /\ Pending(timers, "guardOff") > 0 => ~TriggerOpens]_vars

\* the guard is off although the guard timer of an insertion is still pending
C3_GuardClearedEarly ==
  ~justInsertedPrompt /\ Pending(timers, "guardOff") > 0

(***************************************************************************)
(* Deferred callbacks                                                      *)
(***************************************************************************)
\* C4: a dropdown-removal callback that fires while a session shows its
\* dropdown was scheduled before that dropdown was shown; it leaves the
\* dropdown, the ranked list and the visibility flags as they are.
C4_StaleRemovalIsNoOp ==
  [][(isInDropdownMode /\ isDropdownVisible /\ Fires("hideRemove"))
       => UNCHANGED <<dropdown, filteredPrompts, isDropdownVisible, isHiding>>]_vars

\* a session that counts its dropdown as visible and has none
C4_SessionWithoutDropdown ==
  isInDropdownMode /\ isDropdownVisible /\ dropdown = 0

\* C5: a focus-loss check scheduled when one surface lost the focus, firing
\* when activeInput is another surface, neither resets the session nor
\* clears activeInput.
C5_StaleFocusCheckIsNoOp ==
  [][(/\ activeInput \in Surfaces
      /\ Fires("focusCheck")
      /\ \E i \in 1..Len(timers) :
            /\ timers[i].kind = "focusCheck"
            /\ timers[i].el \in Surfaces \ {activeInput}
            /\ IsTimer(i))
       => UNCHANGED <<activeInput, isInDropdownMode, dropdownModeType,
                      dropdownModeStartPosition, dropdownModeLastCursorPos,
                      isInPlaceholderMode, isDropdownVisible>>]_vars

(***************************************************************************)
(* Placeholder collection                                                  *)
(***************************************************************************)
\* C6: Enter pressed in PlaceholderCollection from a placeholder field or
\* from the dropdown inserts the substituted content when there is any, and
\* always ends in Idle with no placeholder state and no dropdown shown.
C6_EnterFinishesCollection ==
  [][(isInPlaceholderMode /\ isFromOurDropdown(World, focus)
        /\ IsKeydown(PressEnter))
       => /\ FinalContent(World) # << >> => InsertionRuns
          /\ ~isInDropdownMode'
          /\ ~isInPlaceholderMode'
          /\ placeholders' = << >>
          /\ placeholderValues' = << >>
          /\ ~isDropdownVisible'
          /\ dropdown' = 0 \/ Pending(timers', "hideRemove") > 0]_vars

\* the form is still shown by a session that has dropped its placeholder state
C6_FormLeftOpen ==
  /\ isInDropdownMode /\ isDropdownVisible /\ ~isInPlaceholderMode
  /\ rendered = "form" /\ placeholders = << >>

(***************************************************************************)
(* Opening a session                                                       *)
(***************************************************************************)
\* C7: when an edit of the focused surface opens a session from the text
\* trigger, startOffset is the end of the trigger occurrence before the
\* cursor, lastCursorOffset is the cursor, the ranked list is the ranking of
\* the text between the two, and selectedIndex is 0 if that list is
\* non-empty and -1 otherwise.
C7_TriggerOpensFiltering ==
  [][(TriggerOpens /\ focus \in Surfaces /\ text'[focus] # text[focus])
       => LET v == text'[focus]
              c == cursor'[focus]
              start == TriggerIndex(v, c, settings.textTrigger)
                         + Len(settings.textTrigger)
              ranked == RankPrompts(Slice(v, start, c), settings.prompts)
          IN  /\ ~isInPlaceholderMode'
              /\ dropdownModeStartPosition' = start
              /\ dropdownModeLastCursorPos' = c
              /\ filteredPrompts' = ranked
              /\ selectedIndex' = IF ranked # << >> THEN 0 ELSE -1]_vars

\* the text and the cursor of the surface activeInput names, '' and 0 when it
\* names none
ActiveValue == getInputValue(World, activeInput)
ActiveCursor == getCursorPosition(World, activeInput)

C9_EditWhileFiltering ==
  [][(/\ isInDropdownMode /\ ~isInPlaceholderMode
      /\ focus \in Surfaces /\ focus = activeInput
      /\ text'[focus] # text[focus] /\ ~InsertionRuns)
       => LET v == text'[focus]
              c == cursor'[focus]
              start == dropdownModeStartPosition
              trigger == settings.textTrigger
          IN  IF \/ c < start
                 \/ /\ dropdownModeType = "textTrigger"
                    /\ Slice(v, start - Len(trigger), start) # trigger
              THEN /\ ~isInDropdownMode'
                   /\ ~isDropdownVisible'
                   /\ dropdown' = 0 \/ Pending(timers', "hideRemove") > 0
              ELSE /\ isInDropdownMode'
                   /\ dropdownModeStartPosition' = start
                   /\ dropdownModeLastCursorPos' = c
                   /\ filteredPrompts' =
                        RankPrompts(Slice(v, start, c), settings.prompts)]_vars

\* C10: while Filtering, when the check scheduled by the active surface
\* losing the focus runs and the focus is neither on that surface nor in the
\* engine's own UI, the session is reset to Idle and the dropdown hidden.
C10_FocusLossResets ==
  [][(/\ isInDropdownMode /\ ~isInPlaceholderMode
      /\ Fires("focusCheck")
      /\ activeInput \in Surfaces
      /\ focus \notin OwnUI \cup {activeInput}
      /\ \E i \in 1..Len(timers) :
            /\ timers[i].kind = "focusCheck"
            /\ timers[i].el = activeInput
            /\ IsTimer(i))
       => ~isInDropdownMode' /\ ~isDropdownVisible']_vars

\* nothing is pending, the focus is on the page outside the active surface
\* and the dropdown, and the session is still Filtering
C10_SessionOutlivesFocus ==
  /\ isInDropdownMode /\ ~isInPlaceholderMode /\ isDropdownVisible
  /\ activeInput \in Surfaces /\ focus = "body" /\ timers = << >>

(***************************************************************************)
(* Leaving the Filtering state                                             *)
(***************************************************************************)
PressEscape == KeyEvent(Escape, FALSE, FALSE)

\* the key event comes from the active surface or from the dropdown
FromSessionUI ==
  (activeInput # Null /\ focus = activeInput) \/ isFromOurDropdown(World, focus)

\* the state in which the keydown listener and the browser leave the page
\* when key e is pressed in the current state
KeyOutcome(e) == DefaultAction(handleKeydown(World, e, focus), e, focus)

\* C11: in every reachable state that is Filtering with the focus on the
\* active surface or in the dropdown, even with no timer pending any more,
\* pressing Escape clears mode,
\* triggerKind, startOffset, lastCursorOffset and the ranked list and leaves
\* the dropdown removed or its removal scheduled; and a scheduled removal
\* leads to the dropdown being removed.
C11_EscapeResets ==
  /\ []((/\ isInDropdownMode /\ ~isInPlaceholderMode /\ FromSessionUI
          /\ timers = << >>)
         => LET w == KeyOutcome(PressEscape)
            IN  /\ ~w.isInDropdownMode
                /\ w.dropdownModeType = Null
                /\ w.dropdownModeStartPosition = -1
                /\ w.dropdownModeLastCursorPos = -1
                /\ w.filteredPrompts = << >>
                /\ ~w.isDropdownVisible
                /\ w.dropdown = 0 \/ Pending(w.timers, "hideRemove") > 0)
  /\ (Pending(timers, "hideRemove") > 0) ~> (dropdown = 0)

\* a session that is Filtering on the focused surface with no dropdown and
\* nothing pending, which Escape leaves as it is
C11_SessionHidden ==
  /\ isInDropdownMode /\ ~isInPlaceholderMode /\ ~isDropdownVisible
  /\ activeInput \in Surfaces /\ focus = activeInput
  /\ dropdown = 0 /\ timers = << >>
  /\ KeyOutcome(PressEscape).isInDropdownMode

(***************************************************************************)
(* Selecting a template                                                    *)
(***************************************************************************)
\* the step is a click on the item at index of the list shown
IsItemClick(index) ==
  /\ dropdown # 0 /\ rendered = "list"
  /\ index >= 0 /\ index < Len(filteredPrompts)
  /\ Becomes(onSelectPrompt(MoveFocus(World, "control"), index))

\* the step is Enter selecting the item at index: the selected one, or the
\* first when none is selected
IsEnterSelect(index) ==
  /\ isDropdownVisible /\ FromSessionUI
  /\ index = (IF selectedIndex >= 0 /\ selectedIndex < Len(filteredPrompts)
              THEN selectedIndex ELSE 0)
  /\ index < Len(filteredPrompts)
  /\ IsKeydown(PressEnter)

\* the placeholder state a form for the given placeholders starts with
SeededWith(phs) ==
  /\ isInPlaceholderMode' /\ isInDropdownMode'
  /\ placeholders' = phs
  /\ currentPlaceholderIndex' = 0
  /\ DOMAIN placeholderValues' = { phs[k].name : k \in 1..Len(phs) }
  /\ \A k \in 1..Len(phs) : placeholderValues'[phs[k].name] = phs[k].defaultValue

\* extract("Hello [name]!") is one placeholder named "name" with default ""
HelloExtract ==
  LET phs == extractPlaceholders(<<"H","e","l","l","o"," ","[","n","a","m","e","]","!">>)
  IN  /\ Len(phs) = 1
      /\ phs[1].name = <<"n","a","m","e">>
      /\ phs[1].defaultValue = << >>

\* C12: selecting a template in Filtering, by Enter or by a click on its
\* item, opens the placeholder form seeded with the defaults of
\* extract(content) and inserts nothing when extract(content) is non-empty,
\* and runs the insertion at once when it is empty (in a page that has
\* removed none of its surfaces).
C12_SelectingATemplate ==
  [][\A index \in 0..(Len(filteredPrompts) - 1) :
       (/\ isInDropdownMode /\ ~isInPlaceholderMode
        /\ attached = Surfaces
        /\ IsEnterSelect(index) \/ IsItemClick(index))
         => LET phs == extractPlaceholders(filteredPrompts[index + 1].content)
            IN  /\ HelloExtract
                /\ IF phs # << >>
                   THEN SeededWith(phs) /\ ~InsertionRuns /\ text' = text
                   ELSE InsertionRuns]_vars


\* a session without an active surface, whose list the user has clicked
C12_ClickedWithoutSurface ==
  /\ isInDropdownMode /\ ~isInPlaceholderMode /\ isDropdownVisible
  /\ activeInput = Null /\ rendered = "list" /\ focus = "control"


(***************************************************************************)
(* Leaving the placeholder form                                            *)
(***************************************************************************)
\* the step is a click on the back button of the form
IsBackClick ==
  /\ dropdown # 0 /\ rendered = "form"
  /\ Becomes(exitPlaceholderMode(MoveFocus(World, "control")))

\* C13: in every reachable state that is PlaceholderCollection, even with
\* no timer pending any more, pressing Escape discards the placeholder state (content, placeholders, values,
\* currentIndex) and re-enters Filtering with an empty query, the ranked
\* list being the whole library in its own order, and inserts nothing; a
\* click on the back button does the same.
C13_BackToFiltering ==
  /\ []((isInPlaceholderMode /\ timers = << >>)
         => LET w == KeyOutcome(PressEscape)
            IN  /\ ~w.isInPlaceholderMode
                /\ w.currentPromptContent = << >>
                /\ w.placeholders = << >>
                /\ w.placeholderValues = << >>
                /\ w.currentPlaceholderIndex = 0
                /\ w.isInDropdownMode
                /\ w.filterValue = << >>
                /\ w.filteredPrompts = settings.prompts
                /\ w.text = text)
  /\ [][(isInPlaceholderMode /\ IsBackClick)
         => /\ ~isInPlaceholderMode'
            /\ currentPromptContent' = << >>
            /\ placeholders' = << >>
            /\ placeholderValues' = << >>
            /\ currentPlaceholderIndex' = 0
            /\ isInDropdownMode'
            /\ filterValue' = << >>
            /\ filteredPrompts' = settings.prompts
            /\ ~InsertionRuns /\ text' = text]_vars

\* the form is open, the focus is back on the active surface and nothing is
\* pending: Escape leaves the form as it is
C13_EscapeOnSurface ==
  /\ isInPlaceholderMode /\ rendered = "form" /\ isDropdownVisible
  /\ activeInput \in Surfaces /\ focus = activeInput /\ timers = << >>
  /\ KeyOutcome(PressEscape).isInPlaceholderMode


(***************************************************************************)
(* Navigation in the placeholder form                                      *)
(***************************************************************************)
\* the keys that move to the next and to the previous placeholder
NextKeys == {KeyEvent(Tab, FALSE, FALSE), KeyEvent(ArrowDown, FALSE, FALSE)}
PreviousKeys == {KeyEvent(Tab, FALSE, TRUE), KeyEvent(ArrowUp, FALSE, FALSE)}

\* C14: in every reachable state that is PlaceholderCollection,
\* 0 <= currentIndex < len(placeholders); from a field of the form or from
\* the dropdown, next moves currentIndex up by exactly one and leaves it at
\* the last index, previous moves it down by exactly one and leaves it at
\* index 0; and a field that takes the focus leaves currentIndex within
\* the bounds.
C14_IndexWithinBounds ==
  isInPlaceholderMode =>
    LET last == Len(placeholders) - 1
        index == currentPlaceholderIndex
    IN  /\ 0 <= index /\ index <= last
        /\ isFromOurDropdown(World, focus) =>
             /\ \A e \in NextKeys :
                  KeyOutcome(e).currentPlaceholderIndex =
                    IF index < last THEN index + 1 ELSE index
             /\ \A e \in PreviousKeys :
                  KeyOutcome(e).currentPlaceholderIndex =
                    IF index > 0 THEN index - 1 ELSE index
        /\ \A i \in -1..(last + 1) :
             LET after == onPlaceholderNavigate(World, i).currentPlaceholderIndex
             IN  0 <= after /\ after <= last

\* the form has moved on to its last placeholder, whose field has the focus
C14_AtLastPlaceholder ==
  /\ isInPlaceholderMode /\ Len(placeholders) > 1
  /\ currentPlaceholderIndex = Len(placeholders) - 1
  /\ focus = FieldOf(currentPlaceholderIndex)


(***************************************************************************)
(* Insertion into a surface that has left the document                     *)
(***************************************************************************)

\* the insertion is attempted: Enter or a click on the selected template in
\* Filtering, the Insert control in PlaceholderCollection
AttemptInsertion(w) ==
  IF w.isInPlaceholderMode THEN insertPromptWithPlaceholders(w)
  ELSE insertSelectedPrompt(w)

\* the session of w is over: no mode flag left, the dropdown removed or its
\* removal scheduled
AbortedToIdle(w) ==
  /\ ~w.isInDropdownMode /\ ~w.isInPlaceholderMode
  /\ w.dropdownModeType = Null
  /\ ~w.isDropdownVisible
  /\ w.dropdown = 0 \/ Pending(w.timers, "hideRemove") > 0

\* C15: when the insertion is attempted, from Filtering or from
\* PlaceholderCollection, while the target surface is no longer in the
\* document, the session is aborted to Idle (mode flags cleared, dropdown
\* removed) and no surface text is modified
C15_DetachedSurfaceAborts ==
  (/\ isInDropdownMode /\ activeInput \in Surfaces
   /\ activeInput \notin attached
   /\ isInPlaceholderMode \/ Len(filteredPrompts) > 0)
  => LET w == AttemptInsertion(World)
     IN  AbortedToIdle(w) /\ w.text = text

\* the form is open on a surface that has left the document
C15_FormOnDetachedSurface ==
  /\ isInDropdownMode /\ isInPlaceholderMode
  /\ activeInput \in Surfaces /\ activeInput \notin attached
  /\ dropdown # 0 /\ rendered = "form"
  /\ AttemptInsertion(World).isInDropdownMode
  /\ AttemptInsertion(World).text = text


(***************************************************************************)
(* Insertion into a rich-text surface                                      *)
(***************************************************************************)

\* the content the attempt of AttemptInsertion hands to insertPrompt; empty
\* when it hands none (nothing selected, or the selected template opens the
\* form)
AttemptedContent ==
  IF isInPlaceholderMode THEN FinalContent(World)
  ELSE IF selectedIndex >= 0 /\ selectedIndex < Len(filteredPrompts)
          /\ extractPlaceholders(filteredPrompts[selectedIndex + 1].content) = << >>
       THEN filteredPrompts[selectedIndex + 1].content
       ELSE << >>

\* the text of the active rich-text surface with the span of the session
\* replaced by the attempted content
RichReplacement ==
  LET span == RichSpan(World, text[activeInput])
  IN  Substring(text[activeInput], 0, span.start) \o AttemptedContent
        \o SubstringFrom(text[activeInput], span.end)

\* an insertion into the rich-text surface of the session is about to be
\* attempted
RichAttempt ==
  /\ isInDropdownMode /\ activeInput \in Surfaces
  /\ isContentEditable(activeInput) /\ activeInput \in attached
  /\ AttemptedContent # << >>

\* C16: on a rich-text surface, when execCommand fails the content is
\* inserted by the range fallback, and when the fallback fails as well the
\* session is aborted to Idle
C16_FallbackThenAbort ==
  RichAttempt
  => LET w == AttemptInsertion(World)
     IN  /\ env.editor = "manual" => w.text[activeInput] = RichReplacement
         /\ env.editor = "broken" => AbortedToIdle(w)

\* the session is open on a surface whose editor fails both primitives
C16_BothPrimitivesFail ==
  /\ RichAttempt /\ env.editor = "broken" /\ isDropdownVisible
  /\ dropdownModeType = "textTrigger"
  /\ AttemptInsertion(World).isInDropdownMode
  /\ AttemptInsertion(World).justInsertedPrompt


(***************************************************************************)
(* No partial insertion                                                    *)
(***************************************************************************)

\* the text of the active plain surface with the span of the session
\* replaced by the attempted content
ValueResult ==
  ValueReplacement(World, getInputValue(World, activeInput),
                   ProcessedContent(AttemptedContent, activeInput)).newValue

\* C19: after an insertion attempt on a surface of any kind, whatever the
\* primitives of the page do, the text of the surface is either what it was
\* or the complete replacement: the span is never removed without the
\* content being inserted
C19_NoPartialInsertion ==
  (/\ isInDropdownMode /\ activeInput \in Surfaces
   /\ AttemptedContent # << >>)
  => LET w == AttemptInsertion(World)
     IN  /\ \A s \in Surfaces \ {activeInput} : w.text[s] = text[s]
         /\ \/ w.text[activeInput] = text[activeInput]
            \/ w.text[activeInput] = IF isContentEditable(activeInput)
                                     THEN RichReplacement ELSE ValueResult

\* the trigger is in the rich-text surface and the editor fails both
\* primitives: the attempt removes the trigger and inserts nothing
C19_SpanRemovedOnly ==
  /\ RichAttempt /\ env.editor = "broken"
  /\ text[activeInput] # << >>
  /\ AttemptInsertion(World).text[activeInput] = << >>


(***************************************************************************)
(* Activation with an empty library                                        *)
(***************************************************************************)

\* the empty-state indicator is on screen in w, its removal is scheduled,
\* and w has no session
IndicatorShown(w) ==
  /\ w.dropdown # 0 /\ w.rendered = "message" /\ w.isDropdownVisible
  /\ Pending(w.timers, "autoHide") > 0
  /\ \A i \in 1..Len(w.timers) :
        w.timers[i].kind = "autoHide" => w.timers[i].delay <= AUTO_HIDE_DELAY
  /\ ~w.isInDropdownMode /\ ~w.isInPlaceholderMode

\* C17: with no template saved, an activation attempted from Idle, by the
\* text trigger typed into the focused surface or by the hotkey whose
\* activation timer is due, shows the empty-state indicator, schedules its
\* removal after the fixed delay, and creates no session
C17_EmptyLibraryIndicator ==
  (settings.prompts = << >> /\ ~isInDropdownMode /\ ~justInsertedPrompt)
  => /\ (/\ focus \in Surfaces
         /\ TriggerIndex(text[focus], cursor[focus], settings.textTrigger) # -1)
        => IndicatorShown(handleInput(World, focus))
     /\ \A i \in 1..Len(timers) :
          (timers[i].kind = "activate" /\ CanFire(timers, i))
          => IndicatorShown(RunTimer([World EXCEPT !.timers = RemoveAt(timers, i)],
                                     timers[i]))

\* the hotkey was pressed on a surface that holds the trigger, nothing is
\* saved, and neither attempt leaves anything on screen
C17_NothingShown ==
  /\ settings.prompts = << >> /\ ~isInDropdownMode /\ ~justInsertedPrompt
  /\ focus \in Surfaces
  /\ TriggerIndex(text[focus], cursor[focus], settings.textTrigger) # -1
  /\ handleInput(World, focus).dropdown = 0
  /\ \E i \in 1..Len(timers) :
        /\ timers[i].kind = "activate" /\ CanFire(timers, i)
        /\ RunTimer([World EXCEPT !.timers = RemoveAt(timers, i)],
                    timers[i]).dropdown = 0


(***************************************************************************)
(* An empty trigger, an empty hotkey                                       *)
(***************************************************************************)
PressHotkey == KeyEvent(<<"P">>, TRUE, TRUE)

\* the hotkey pressed in Idle on the focused surface arms the activation,
\* and the activation due opens a hotkey session
HotkeyStillOpens ==
  /\ (/\ ~isInDropdownMode /\ ~isDropdownVisible
      /\ focus \in Surfaces /\ timers = << >>)
     => LET w == KeyOutcome(PressHotkey)
        IN  Pending(w.timers, "activate") = 1 /\ w.activeInput = focus
  /\ \A i \in 1..Len(timers) :
       (~isInDropdownMode /\ timers[i].kind = "activate" /\ CanFire(timers, i))
       => LET w == RunTimer([World EXCEPT !.timers = RemoveAt(timers, i)],
                            timers[i])
          IN  w.isInDropdownMode /\ w.dropdownModeType = "hotkey"

\* an input event in Idle on a surface that holds the trigger before the
\* cursor opens a text-trigger session
TriggerStillOpens ==
  (/\ ~isInDropdownMode /\ ~justInsertedPrompt /\ focus \in Surfaces
   /\ TriggerIndex(text[focus], cursor[focus], TextTrigger) # -1)
  => LET w == handleInput(World, focus)
     IN  w.isInDropdownMode /\ w.dropdownModeType = "textTrigger"

\* C18: with an empty text trigger no input event opens a session and the
\* hotkey still opens one; with an empty hotkey no key event matches it, no
\* activation is ever armed, and the text trigger still opens a session
C18_EmptySettingDisablesOnePath ==
  /\ settings.textTrigger = << >>
     => /\ \A s \in Surfaces :
             ~isInDropdownMode => ~handleInput(World, s).isInDropdownMode
        /\ isInDropdownMode => dropdownModeType = "hotkey"
        /\ HotkeyStillOpens
  /\ settings.hotkey = << >>
     => /\ \A e \in KeyEvents : ~matchesHotkey(e, settings.hotkey, IsMac)
        /\ Pending(timers, "activate") = 0
        /\ isInDropdownMode => dropdownModeType = "textTrigger"
        /\ TriggerStillOpens

\* with an empty text trigger the hotkey has opened a session on a surface
\* that holds what the trigger used to be
C18_HotkeySessionOverColon ==
  /\ settings.textTrigger = << >>
  /\ isInDropdownMode /\ dropdownModeType = "hotkey" /\ isDropdownVisible
  /\ activeInput \in Surfaces /\ text[activeInput] = TextTrigger


(***************************************************************************)
(* Trigger validity                                                        *)
(***************************************************************************)

\* the offsets at which trigger starts in value and ends at or before
\* cursorPos
EndingBefore(value, cursorPos, trigger) ==
  { i \in 0..Len(value) :
      /\ i + Len(trigger) <= Min(cursorPos, Len(value))
      /\ \A k \in 1..Len(trigger) : value[i + k] = trigger[k] }

\* the last of them, -1 when there is none
LastEndingBefore(value, cursorPos, trigger) ==
  LET found == EndingBefore(value, cursorPos, trigger)
  IN  IF found = {} THEN -1
      ELSE CHOOSE i \in found : \A j \in found : j <= i

\* C20: for every text, cursor offset and non-empty trigger, checkTextTrigger
\* matches exactly when the last occurrence of the trigger that ends at or
\* before the cursor exists and starts the text or follows a whitespace
\* character; the offset it reports is the start of that occurrence, and the
\* session it opens starts right after the trigger
C20_TriggerValidity ==
  \A s \in Surfaces :
    LET value == text[s]
        trigger == settings.textTrigger
    IN  \A cursorPos \in 0..Len(value) :
          LET last == LastEndingBefore(value, cursorPos, trigger)
              valid == /\ last # -1
                       /\ last = 0 \/ IsWhitespace(value[last])
          IN  /\ trigger # << >>
              /\ TriggerIndex(value, cursorPos, trigger)
                   = IF valid THEN last ELSE -1
              /\ (/\ focus = s /\ cursor[s] = cursorPos
                  /\ ~isInDropdownMode /\ ~justInsertedPrompt)
                 => LET w == handleInput(World, s)
                    IN  /\ w.isInDropdownMode = valid
                        /\ valid => /\ w.dropdownModeType = "textTrigger"
                                    /\ w.dropdownModeStartPosition
                                         = last + Len(trigger)

\* a session opened by the second of two occurrences of the trigger, the
\* first one not at a word boundary
C20_OpenedByLastOccurrence ==
  /\ isInDropdownMode /\ dropdownModeType = "textTrigger"
  /\ focus = "A"
  /\ Cardinality(EndingBefore(text["A"], cursor["A"], settings.textTrigger)) = 2
  /\ dropdownModeStartPosition
       = LastEndingBefore(text["A"], cursor["A"], settings.textTrigger)
           + Len(settings.textTrigger)
  /\ dropdownModeStartPosition = cursor["A"]
  /\ \E i \in EndingBefore(text["A"], cursor["A"], settings.textTrigger) :
        i > 0 /\ ~IsWhitespace(text["A"][i])


(***************************************************************************)
(* Hotkey matching                                                         *)
(***************************************************************************)

\* hotkey settings as the options page lets the user write them, each with
\* the modifiers it names ("mod" for the platform's) and its main key
HotkeySpecs ==
  { [text |-> <<"C","t","r","l","+","S","h","i","f","t","+","P">>,
     mods |-> {"ctrl", "shift"}, key |-> <<"p">>],
    [text |-> <<"m","o","d","+","k">>,
     mods |-> {"mod"}, key |-> <<"k">>],
    [text |-> <<" ","C","o","n","t","r","o","l"," ","+"," ","A","l","t"," ","+"," ","p"," ">>,
     mods |-> {"ctrl", "alt"}, key |-> <<"p">>],
    [text |-> <<"C","m","d","+","O","p","t","i","o","n","+","P">>,
     mods |-> {"meta", "alt"}, key |-> <<"p">>],
    [text |-> <<"c","o","m","m","a","n","d","+","S","H","I","F","T","+","K">>,
     mods |-> {"meta", "shift"}, key |-> <<"k">>],
    [text |-> <<"P">>,
     mods |-> {}, key |-> <<"p">>],
    [text |-> <<"A","l","t","+","E","n","t","e","r">>,
     mods |-> {"alt"}, key |-> <<"e","n","t","e","r">>],
    [text |-> <<"s","h","i","f","t","+","c","t","r","l","+","M","E","T","A","+","k">>,
     mods |-> {"shift", "ctrl", "meta"}, key |-> <<"k">>] }

\* the key events of a keyboard: every combination of the four modifiers
HotkeyEvents ==
  [key : { <<"P">>, <<"p">>, <<"k">>, Enter },
   ctrlKey : BOOLEAN, shiftKey : BOOLEAN, altKey : BOOLEAN, metaKey : BOOLEAN]

InitHotkeys ==
  /\ \E h \in HotkeySpecs : settings = [LoadedSettings EXCEPT !.hotkey = h.text]
  /\ Constructed /\ env = Brief

\* a key is pressed with any modifiers held
ModifiedKeydown ==
  \E e \in HotkeyEvents :
    /\ Len(timers) <= env.maxPending
    /\ (isDropdownVisible /\ Len(e.key) = 1) => Len(filterValue) < MaxFilterLen
    /\ focus \notin Fields \cup {"control"}
    /\ Becomes(DefaultAction(handleKeydown(World, e, focus), e, focus))

NextHotkeys == ClickInto \/ ModifiedKeydown \/ FireTimer
SpecHotkeys == InitHotkeys /\ [][NextHotkeys]_vars

\* the modifiers a hotkey setting requires on a platform
RequiredModifiers(h, isMac) ==
  (h.mods \ {"mod"})
    \cup (IF "mod" \in h.mods THEN {IF isMac THEN "meta" ELSE "ctrl"} ELSE {})

\* the modifiers a key event carries
HeldModifiers(e) ==
  (IF e.ctrlKey THEN {"ctrl"} ELSE {}) \cup (IF e.shiftKey THEN {"shift"} ELSE {})
    \cup (IF e.altKey THEN {"alt"} ELSE {}) \cup (IF e.metaKey THEN {"meta"} ELSE {})

\* C21: matchesHotkey(event, spec) is true exactly when the event's key is
\* the main key of the spec, letter case aside, and the event holds exactly
\* the modifiers the spec requires, or, on a macOS-like platform, the spec
\* requires ctrl and not meta and the event holds meta and not ctrl; on any
\* other platform an event with an extra or a missing modifier never matches
C21_HotkeyMatch ==
  \A h \in HotkeySpecs : \A e \in HotkeyEvents : \A isMac \in BOOLEAN :
    h.text = settings.hotkey
    => LET required == RequiredModifiers(h, isMac)
           compat == /\ isMac /\ "ctrl" \in required /\ "meta" \notin required
                     /\ e.metaKey /\ ~e.ctrlKey
       IN  /\ matchesHotkey(e, settings.hotkey, isMac)
                = (/\ ToLowerCase(e.key) = h.key
                   /\ HeldModifiers(e) = required \/ compat)
           /\ (~isMac /\ HeldModifiers(e) # required)
                => ~matchesHotkey(e, settings.hotkey, isMac)

\* the hotkey written with blanks and synonyms has opened a session
C21_SynonymHotkeyOpened ==
  /\ settings.hotkey = <<" ","C","o","n","t","r","o","l"," ","+"," ","A","l","t"," ","+"," ","p"," ">>
  /\ isInDropdownMode /\ dropdownModeType = "hotkey" /\ isDropdownVisible


(***************************************************************************)
(* Libraries of templates                                                  *)
(***************************************************************************)

\* templates a user may have saved: the two forms of placeholder in either
\* order, one name in both forms, a default value
PromptBraceFirst == [name |-> <<"G", "o">>, content |-> <<"{","m","}","[","n","]">>]
PromptBothForms == [name |-> <<"G", "o">>, content |-> <<"[","x","]","{","x",":","d","}">>]
PromptDefaultFirst == [name |-> <<"G", "o">>, content |-> <<"{","x",":","d","}","[","x","]">>]
Libraries ==
  { <<PromptPlain, PromptBare>>, <<PromptBraceFirst>>, <<PromptBothForms>>,
    <<PromptDefaultFirst>> }

\* a page with one surface, long enough for what the templates insert
Roomy ==
  [targets |-> {"A", "body"}, chars |-> {":"},
   chunks |-> { <<":">> }, maxLen |-> MaxLenTwo, maxPending |-> MaxPending,
   maxText |-> MaxRoomy, editor |-> "native"]
InitLibrary ==
  /\ \E lib \in Libraries : settings = [LoadedSettings EXCEPT !.prompts = lib]
  /\ Constructed /\ env = Roomy
SpecLibrary == InitLibrary /\ [][Next]_vars

\* the tokens of either form met when content is read once from offset pos,
\* each with its form
RECURSIVE ScanBothForms(_, _)
ScanBothForms(s, pos) ==
  IF pos >= Len(s) THEN << >>
  ELSE LET b == TokenAt(s, pos, "[", "]")
           c == TokenAt(s, pos, "{", "}")
       IN  IF b.ok
           THEN <<[name |-> Trim(b.name), defaultValue |-> b.defaultValue,
                   syntax |-> "bracket"]>> \o ScanBothForms(s, b.end)
           ELSE IF c.ok
           THEN <<[name |-> Trim(c.name), defaultValue |-> c.defaultValue,
                   syntax |-> "brace"]>> \o ScanBothForms(s, c.end)
           ELSE ScanBothForms(s, pos + 1)

\* the tokens whose name no earlier token has
FirstOfEachName(tokens) ==
  SelectSeq([i \in 1..Len(tokens) |->
               [token |-> tokens[i],
                first |-> \A j \in 1..(i - 1) : tokens[j].name # tokens[i].name]],
            LAMBDA x : x.first)

\* C22: extract(content) holds one placeholder per distinct name, in the
\* order of the first occurrences in the text read once over both forms,
\* each with the form and the default value of its first occurrence
C22_ExtractInTextOrder ==
  \A i \in 1..Len(settings.prompts) :
    LET phs == extractPlaceholders(settings.prompts[i].content)
        firsts == FirstOfEachName(ScanBothForms(settings.prompts[i].content, 0))
    IN  /\ Len(phs) = Len(firsts)
        /\ \A k \in 1..Len(phs) :
              /\ phs[k].name = firsts[k].token.name
              /\ phs[k].syntax = firsts[k].token.syntax
              /\ phs[k].defaultValue = firsts[k].token.defaultValue

\* the form of the template that reads {m}[n] is open, its first field the
\* one of n
C22_FormInOtherOrder ==
  /\ isInPlaceholderMode /\ rendered = "form"
  /\ currentPromptContent = PromptBraceFirst.content
  /\ Len(placeholders) = 2
  /\ placeholders[1].name = <<"n">> /\ placeholders[2].name = <<"m">>


(***************************************************************************)
(* Preview and inserted text                                               *)
(***************************************************************************)

\* the forEach of updatePreview from placeholder i on, as the text the
\* preview shows: the markup of the highlight, and the escaping innerHTML
\* undoes, left out
RECURSIVE PreviewFrom(_, _, _, _)
PreviewFrom(preview, phs, values, i) ==
  IF i > Len(phs) THEN preview
  ELSE LET name == phs[i].name
           valueRaw == FirstNonEmpty(values[name], phs[i].defaultValue,
                                     <<"[">> \o name \o <<"]">>)
       IN  PreviewFrom(
             ReplaceTokens(ReplaceTokens(preview, 0, "[", "]", name, valueRaw),
                           0, "{", "}", name, valueRaw),
             phs, values, i + 1)

\* the text of the preview of the form
PreviewText(w) ==
  PreviewFrom(w.currentPromptContent, w.placeholders, w.placeholderValues, 1)

\* C23: the text insertPromptWithPlaceholders inserts is the text the preview
\* of the form shows, for every content, placeholder list and value map
C23_InsertedEqualsPreview ==
  isInPlaceholderMode => FinalContent(World) = PreviewText(World)

\* the form of a template of two placeholders is open with no value typed:
\* the preview shows the two names in brackets, and nothing would be
\* inserted in their place
C23_PreviewShowsName ==
  /\ isInPlaceholderMode /\ rendered = "form"
  /\ currentPromptContent = PromptBare.content
  /\ Len(placeholders) = 2
  /\ \A k \in 1..2 : placeholderValues[placeholders[k].name] = << >>
  /\ PreviewText(World) = <<"[", "n", "]", "[", "m", "]">>
  /\ FinalContent(World) = << >>


(***************************************************************************)
(* Ranking of a library against the queries of a page                      *)
(***************************************************************************)
\* a template that shares its score with PromptBare for the query "g", one
\* whose name has a word that starts inside it, and one whose content has a
\* blank
PromptTwin == [name |-> <<"g", "o">>, content |-> <<"k">>]
PromptWords == [name |-> <<"a", " ", "g">>, content |-> <<"G">>]
PromptDouble == [name |-> <<"g", "g">>, content |-> <<"g", " ", "g">>]
SearchLibraries ==
  { <<PromptPlain, PromptBare, PromptTwin>>, <<PromptWords, PromptDouble>> }

\* a page whose text field holds a text when the content script loads, in
\* lower and upper case, for each library and each place the user clicks
SearchTexts == UNION { [1..n -> {":", "g", "G", " "}] : n \in 0..MaxPrefilled }
InitSearch ==
  /\ \E lib \in SearchLibraries : settings = [LoadedSettings EXCEPT !.prompts = lib]
  /\ EngineConstructed
  /\ \E v \in SearchTexts :
        text = [s \in Surfaces |-> IF s = "A" THEN v ELSE << >>]
  /\ cursor = [s \in Surfaces |-> 0]
  /\ attached = Surfaces
  /\ focus = "body"
  /\ env = Prefilled
SpecSearch == InitSearch /\ [][NextPrefilled]_vars

\* the whitespace-delimited words of s
WordsOf(s) ==
  { SubSeq(s, p[1], p[2]) :
      p \in { p \in (1..Len(s)) \X (1..Len(s)) :
                /\ p[1] <= p[2]
                /\ \A k \in p[1]..p[2] : ~IsWhitespace(s[k])
                /\ p[1] = 1 \/ IsWhitespace(s[p[1] - 1])
                /\ p[2] = Len(s) \/ IsWhitespace(s[p[2] + 1]) } }

\* the table of bonuses: the points of a row, and whether it applies to a
\* query against a name and a content, all three in lower case
BonusTable(q, name, content) ==
  << [points |-> 1000, applies |-> name = q],
     [points |-> 500, applies |-> content = q],
     [points |-> 100, applies |-> StartsWith(name, q)],
     [points |-> 50, applies |-> StartsWith(content, q)],
     [points |-> 10, applies |-> Includes(name, q)],
     [points |-> 5, applies |-> Includes(content, q)],
     [points |-> 25, applies |-> \E word \in WordsOf(name) : StartsWith(word, q)],
     [points |-> 15, applies |-> \E word \in WordsOf(content) : StartsWith(word, q)] >>

RECURSIVE SumApplicable(_)
SumApplicable(rows) ==
  IF rows = << >> THEN 0
  ELSE (IF Head(rows).applies THEN Head(rows).points ELSE 0)
       + SumApplicable(Tail(rows))

\* the sum of the applicable bonuses of a query against a template
BonusSum(query, prompt) ==
  SumApplicable(BonusTable(Trim(ToLowerCase(query)), ToLowerCase(prompt.name),
                           ToLowerCase(prompt.content)))

\* the queries the text of the field can hand to the ranking: its slices
QueriesAtHand ==
  { SubSeq(text["A"], i, j) : i \in 1..Len(text["A"]), j \in 1..Len(text["A"]) }

\* the query of the session the text trigger opened
SessionQuery ==
  Substring(text["A"], dropdownModeStartPosition, cursor["A"])

\* C24: the score of a template against a query is the sum of the
\* applicable bonuses of the table (1000 and 500 for name and content equal
\* to the query, 100 and 50 for starting with it, 10 and 5 for containing
\* it, 25 and 15 for a word of them starting with it), letter case ignored,
\* and 0 when none applies
C24_ScoreIsBonusSum ==
  \A q \in QueriesAtHand : \A i \in 1..Len(settings.prompts) :
     Trim(ToLowerCase(q)) # << >> =>
        Score(Trim(ToLowerCase(q)), settings.prompts[i])
           = BonusSum(q, settings.prompts[i])

\* the text trigger has opened a session on a query in upper case that a
\* template matches by a word inside its name and by its whole content
C24_WordInsideName ==
  /\ isInDropdownMode /\ dropdownModeType = "textTrigger"
  /\ SessionQuery = <<"G">>
  /\ filteredPrompts = <<PromptWords, PromptDouble>>
  /\ Score(<<"g">>, PromptWords) = 605
  /\ Score(<<"g">>, PromptDouble) = 205

\* r is the ranking of prompts for the query: the prompts unchanged when the
\* query is blank, else those of positive score, by descending score, equal
\* scores in the order of prompts
IsRanking(r, query, prompts) ==
  LET pos == { i \in 1..Len(prompts) : BonusSum(query, prompts[i]) > 0 }
  IN  IF Trim(ToLowerCase(query)) = << >> THEN r = prompts
      ELSE /\ Len(r) = Cardinality(pos)
           /\ \E f \in [1..Len(r) -> pos] :
                /\ \A k \in 1..Len(r) : r[k] = prompts[f[k]]
                /\ \A k, l \in 1..Len(r) :
                     k < l => \/ BonusSum(query, prompts[f[k]])
                                   > BonusSum(query, prompts[f[l]])
                              \/ /\ BonusSum(query, prompts[f[k]])
                                      = BonusSum(query, prompts[f[l]])
                                 /\ f[k] < f[l]

\* C25: the list a session shows for its query is the library unchanged when
\* the trimmed, lower-cased query is empty, and otherwise exactly the
\* templates of positive score, by descending score, templates of equal
\* score in their order in the library
C25_RankIsStableDescending ==
  /\ (isInDropdownMode /\ dropdownModeType = "textTrigger")
        => IsRanking(filteredPrompts, SessionQuery, settings.prompts)
  /\ \A q \in QueriesAtHand :
        IsRanking(RankPrompts(q, settings.prompts), q, settings.prompts)

\* a session shows two templates of equal score in their library order,
\* ahead of the template that precedes them in the library
C25_TieKeepsLibraryOrder ==
  /\ isInDropdownMode /\ dropdownModeType = "textTrigger"
  /\ Trim(ToLowerCase(SessionQuery)) = <<"g">>
  /\ settings.prompts = <<PromptPlain, PromptBare, PromptTwin>>
  /\ filteredPrompts = <<PromptBare, PromptTwin, PromptPlain>>
  /\ BonusSum(SessionQuery, PromptBare) = BonusSum(SessionQuery, PromptTwin)


(***************************************************************************)
(* Templates of several lines                                              *)
(***************************************************************************)
\* the contents of templates with line breaks and blanks, one template to
\* a library
LayoutContents ==
  { <<"k", "\n", "k">>, <<"k", "\r", "\n", "k">>, <<"k", " ", " ", "k">>,
    <<"\n", "k">>, <<"k", "\t", "k">> }

\* a page with a one-line field and a text area, the user typing the trigger
Layout == [TwoSurfaces EXCEPT !.maxText = MaxRoomy, !.maxPending = MaxPending]
InitLayout ==
  /\ \E c \in LayoutContents :
        settings = [LoadedSettings EXCEPT
                      !.prompts = <<[name |-> <<"G", "o">>, content |-> c]>>]
  /\ Constructed /\ env = Layout
\* the user types the trigger or presses Enter
SessionKey ==
  \E e \in { KeyEvent(TextTrigger, FALSE, FALSE), KeyEvent(Enter, FALSE, FALSE) } :
    /\ Len(timers) <= env.maxPending
    /\ (isDropdownVisible /\ Len(e.key) = 1) => Len(filterValue) < MaxFilterLen
    /\ Becomes(DefaultAction(handleKeydown(World, e, focus), e, focus))
NextLayout == SessionKey \/ Click \/ FireTimer
SpecLayout == InitLayout /\ [][NextLayout]_vars

\* s with every line break, \n or \r\n, replaced by one space
RECURSIVE NewlinesToSpaces(_)
NewlinesToSpaces(s) ==
  IF s = << >> THEN << >>
  ELSE IF Head(s) = "\n" THEN <<" ">> \o NewlinesToSpaces(Tail(s))
  ELSE IF Head(s) = "\r" /\ Len(s) > 1 /\ s[2] = "\n"
       THEN <<" ">> \o NewlinesToSpaces(Tail(Tail(s)))
       ELSE <<Head(s)>> \o NewlinesToSpaces(Tail(s))

\* an insertion into the attached plain surface of the session is about to
\* be attempted
PlainAttempt ==
  /\ isInDropdownMode /\ activeInput \in Surfaces \cap attached
  /\ ~isContentEditable(activeInput)
  /\ AttemptedContent # << >>

\* the text of the active plain surface with the span of the session
\* replaced by content
SpanReplacedBy(content) ==
  ValueReplacement(World, getInputValue(World, activeInput), content).newValue

\* C29: what an insertion writes into a single-line surface is the content
\* with every line break replaced by one space and otherwise as authored;
\* into a multi-line surface it is the content unchanged
C29_OnlyNewlinesBecomeSpaces ==
  PlainAttempt =>
     AttemptInsertion(World).text[activeInput] =
        SpanReplacedBy(IF TagName(activeInput) = "INPUT"
                       THEN NewlinesToSpaces(AttemptedContent)
                       ELSE AttemptedContent)

\* a template with two blanks in a row is about to be inserted into the
\* one-line field, and the text area has taken a template of two lines as it
\* is
C29_BlanksCollapsed ==
  /\ PlainAttempt /\ activeInput = "A"
  /\ AttemptedContent = <<"k", " ", " ", "k">>
  /\ AttemptInsertion(World).text["A"] = <<"k", " ", "k">>


(***************************************************************************)
(* Resolution of the editable root in a document                           *)
(***************************************************************************)
\* the elements of a page, in document order, and what an element is: a
\* DIV, a FORM, a DIV with contenteditable "true" or "false", a TEXTAREA of
\* at most 2 by 2 pixels, a TEXTAREA of ordinary size, a DIV of role textbox
DomNodes == {"n1", "n2", "n3", "n4"}
NodeKinds == {"div", "form", "ce", "nce", "proxy", "textarea", "textbox"}
NodeOrder == <<"n1", "n2", "n3", "n4">>
NodeIndex(n) == CHOOSE i \in 1..Len(NodeOrder) : NodeOrder[i] = n

\* the trees of four elements whose document order is n1 .. n4
DomShapes ==
  { [n \in DomNodes |-> CASE n = "n1" -> Null [] n = "n2" -> "n1"
                          [] n = "n3" -> p3 [] n = "n4" -> p4] :
      p3 \in {"n1", "n2"}, p4 \in {"n1", "n3"} }
      \cup { [n \in DomNodes |-> CASE n = "n1" -> Null [] n = "n2" -> "n1"
                                   [] n = "n3" -> "n2" [] n = "n4" -> "n2"] }

\* the documents: a TEXTAREA has no element inside it
Documents ==
  { [parent |-> p, kind |-> k] : p \in DomShapes, k \in [DomNodes -> NodeKinds] }
DocumentsOfPages ==
  { d \in Documents :
      \A n \in DomNodes :
         d.parent[n] # Null => d.kind[d.parent[n]] \notin {"proxy", "textarea"} }

\* HTMLElement.isContentEditable: the contenteditable state, inherited
RECURSIVE NodeIsContentEditable(_, _)
NodeIsContentEditable(dom, n) ==
  IF n = Null THEN FALSE
  ELSE IF dom.kind[n] = "ce" THEN TRUE
  ELSE IF dom.kind[n] = "nce" THEN FALSE
  ELSE NodeIsContentEditable(dom, dom.parent[n])

isEditableElement(dom, element) ==
  IF element = Null THEN FALSE
  ELSE \/ dom.kind[element] \in {"proxy", "textarea"}
       \/ NodeIsContentEditable(dom, element)
       \/ dom.kind[element] = "textbox"

\* while (root.parentElement && root.parentElement.isContentEditable)
RECURSIVE ContentEditableRoot(_, _)
ContentEditableRoot(dom, root) ==
  IF dom.parent[root] # Null /\ NodeIsContentEditable(dom, dom.parent[root])
  THEN ContentEditableRoot(dom, dom.parent[root])
  ELSE root

\* element.closest('form, .editor-container, [role="main"]')
RECURSIVE ClosestContainer(_, _)
ClosestContainer(dom, n) ==
  IF n = Null THEN Null
  ELSE IF dom.kind[n] = "form" THEN n
  ELSE ClosestContainer(dom, dom.parent[n])

RECURSIVE IsInside(_, _, _)
IsInside(dom, n, container) ==
  IF dom.parent[n] = Null THEN FALSE
  ELSE dom.parent[n] = container \/ IsInside(dom, dom.parent[n], container)

\* container.querySelector('[contenteditable="true"]:not([aria-hidden="true"])')
FirstContentEditable(dom, container) ==
  LET found == { n \in DomNodes : dom.kind[n] = "ce" /\ IsInside(dom, n, container) }
  IN  IF found = {} THEN Null
      ELSE CHOOSE n \in found : \A m \in found : NodeIndex(n) <= NodeIndex(m)

\* the loop of getEditableRoot over the ancestors, from current on
RECURSIVE EditableAncestor(_, _)
EditableAncestor(dom, current) ==
  IF current = Null THEN Null
  ELSE IF isEditableElement(dom, current)
       THEN IF NodeIsContentEditable(dom, current)
            THEN ContentEditableRoot(dom, current)
            ELSE current
       ELSE EditableAncestor(dom, dom.parent[current])

getEditableRoot(dom, element) ==
  IF element = Null THEN Null
  ELSE IF isEditableElement(dom, element)
       THEN IF NodeIsContentEditable(dom, element)
            THEN ContentEditableRoot(dom, element)
            ELSE element
       ELSE LET container ==
                  IF ClosestContainer(dom, element) # Null
                  THEN ClosestContainer(dom, element)
                  ELSE dom.parent[element]
                ce == IF container = Null THEN Null
                      ELSE FirstContentEditable(dom, container)
            IN  IF dom.kind[element] = "proxy" /\ ce # Null THEN ce
                ELSE EditableAncestor(dom, dom.parent[element])

\* a page with a document of its own; the user moves the focus over it
PageOf(dom) ==
  [targets |-> {"body"}, chars |-> {":"}, chunks |-> { <<":">> },
   maxLen |-> MaxLenTwo, maxPending |-> MaxPending, maxText |-> MaxText,
   editor |-> "native", dom |-> dom]
InitDom ==
  /\ settings = LoadedSettings /\ Constructed
  /\ \E dom \in DocumentsOfPages : env = PageOf(dom)

\* the focus moves to an element of the document or to the body: the
\* focusout listener runs for the element left, the focusin listener for
\* the one entered
FocusNode ==
  \E n \in DomNodes \cup {"body"} :
    /\ n # focus
    /\ Len(timers) <= env.maxPending
    /\ LET w1 == [World EXCEPT !.focus = n]
           w2 == IF focus \in DomNodes THEN OnFocusOut(w1, focus) ELSE w1
           editableRoot == IF n \in DomNodes THEN getEditableRoot(env.dom, n)
                           ELSE Null
       IN  Becomes(IF editableRoot # Null
                   THEN [w2 EXCEPT !.activeInput = editableRoot] ELSE w2)
NextDom == FocusNode \/ FireTimer
SpecDom == InitDom /\ [][NextDom]_vars

\* the element and its ancestors
RECURSIVE AncestorsOrSelf(_, _)
AncestorsOrSelf(dom, n) ==
  IF n = Null THEN {} ELSE {n} \cup AncestorsOrSelf(dom, dom.parent[n])

\* the root of the rich editor a proxy text field backs, the editor being
\* the first contenteditable element of its container; none for any other
\* element
EditorBackedBy(dom, n) ==
  LET container == IF ClosestContainer(dom, n) # Null
                   THEN ClosestContainer(dom, n) ELSE dom.parent[n]
  IN  IF dom.kind[n] # "proxy" \/ container = Null THEN Null
      ELSE IF FirstContentEditable(dom, container) = Null THEN Null
      ELSE ContentEditableRoot(dom, FirstContentEditable(dom, container))

\* the root the description of resolveRoot gives for an element
ResolvedRoot(dom, n) ==
  LET editables == { a \in AncestorsOrSelf(dom, n) : isEditableElement(dom, a) }
  IN  IF EditorBackedBy(dom, n) # Null THEN EditorBackedBy(dom, n)
      ELSE IF editables = {} THEN Null
      ELSE CHOOSE a \in editables :
             \A b \in editables : a \in AncestorsOrSelf(dom, b)

\* C28: for every element of the document, the root the engine resolves is
\* the outermost editable element among the element and its ancestors, none
\* when there is no such element, and the rich editor of the container when
\* the element is a near-zero-size proxy text field backing one
C28_ResolveRoot ==
  \A n \in DomNodes : getEditableRoot(env.dom, n) = ResolvedRoot(env.dom, n)

\* the focus is on an element inside two nested contenteditable regions and
\* the engine tracks the outer one
C28_OutermostTracked ==
  /\ focus = "n4" /\ activeInput = "n2"
  /\ env.dom.kind["n2"] = "ce" /\ env.dom.kind["n3"] = "ce"
  /\ env.dom.parent["n4"] = "n3" /\ env.dom.parent["n3"] = "n2"
  /\ env.dom.kind["n1"] = "div"


(***************************************************************************)
(* Writing and reading the text of a surface                               *)
(***************************************************************************)
\* the texts written: lines of printable characters joined with newlines
MaxWritten == 3
WrittenTexts == UNION { [1..n -> {"k", "\n"}] : n \in 0..MaxWritten }

\* the value an INPUT keeps of the one assigned to it: the value
\* sanitization of a single-line control strips the line breaks
StripNewlines(value) ==
  LET keep == { i \in 1..Len(value) : value[i] \notin {"\n", "\r"} }
      nth(k) == CHOOSE i \in keep : Cardinality({ j \in keep : j <= i }) = k
  IN  [k \in 1..Cardinality(keep) |-> value[nth(k)]]

\* the blocks a contenteditable element holds after insertText of value: one
\* block to a line
RECURSIVE BlocksOf(_)
BlocksOf(value) ==
  LET breaks == { i \in 1..Len(value) : value[i] = "\n" }
  IN  IF breaks = {} THEN <<value>>
      ELSE LET first == CHOOSE i \in breaks : \A j \in breaks : i <= j
           IN  <<SubSeq(value, 1, first - 1)>>
                 \o BlocksOf(SubSeq(value, first + 1, Len(value)))

\* element.innerText of a sequence of blocks: the blocks, a line break
\* between two of them
RECURSIVE InnerText(_)
InnerText(blocks) ==
  IF blocks = << >> THEN << >>
  ELSE IF Len(blocks) = 1 THEN blocks[1]
  ELSE blocks[1] \o <<"\n">> \o InnerText(Tail(blocks))

\* InputManager.setInputValue.  A plain control takes the value through its
\* value property and the input event is dispatched; a contenteditable
\* element is focused, its content selected, and execCommand('insertText')
\* replaces it where the editor of the page lets it (then the browser
\* dispatches the input event) and changes nothing where it fails
setInputValue(w, input, value) ==
  IF input = Null THEN w
  ELSE IF TagName(input) \in {"INPUT", "TEXTAREA"}
  THEN LET kept == IF TagName(input) = "INPUT" THEN StripNewlines(value)
                   ELSE value
       IN  handleInput([w EXCEPT !.text[input] = kept,
                                 !.cursor[input] = Len(kept)], input)
  ELSE LET w1 == focusElement(w, input)
           shown == InnerText(BlocksOf(value))
       IN  IF w.env.editor = "native"
           THEN handleInput([w1 EXCEPT !.text[input] = shown,
                                       !.cursor[input] = Len(shown)], input)
           ELSE w1

\* a page with a one-line field, a text area and a rich-text surface, its
\* editor of one of the three kinds
Writable(kind) ==
  [targets |-> {"A", "B", "E", "body"}, chars |-> {":"},
   chunks |-> { <<":">> }, maxLen |-> MaxLenTwo, maxPending |-> MaxPending,
   maxText |-> MaxWritten, editor |-> kind]
InitWritable ==
  /\ settings = LoadedSettings /\ Constructed
  /\ \E kind \in EditorKinds : env = Writable(kind)

\* a text is written to a surface
WriteText ==
  \E s \in Surfaces, t \in WrittenTexts :
    /\ Len(timers) <= env.maxPending
    /\ Becomes(setInputValue(World, s, t))
SpecWritable == InitWritable /\ [][WriteText]_vars

\* C30: for every surface, plain or block-structured, and every text of
\* printable characters joined with newlines, reading the surface after
\* writing the text to it yields the text
C30_RoundTrip ==
  \A s \in Surfaces : \A t \in WrittenTexts :
     getInputValue(setInputValue(World, s, t), s) = t

\* two lines have been written to the text area and to the rich-text
\* surface and are read back as written, and the one-line field given the
\* same text holds it without its line break
C30_LinesReadBack ==
  /\ text["B"] = <<"k", "\n", "k">> /\ text["E"] = <<"k", "\n", "k">>
  /\ getInputValue(setInputValue(World, "B", <<"k", "\n", "k">>), "B")
        = <<"k", "\n", "k">>
  /\ getInputValue(setInputValue(World, "A", <<"k", "\n", "k">>), "A")
        = <<"k", "k">>


(***************************************************************************)
(* Loading the settings                                                    *)
(***************************************************************************)
\* the settings the constructor sets
DefaultSettings ==
  [hotkey |-> Hotkey, textTrigger |-> <<"A", "I", ":">>, prompts |-> << >>]

\* what comes of a getSettings request: an object (all the settings, or the
\* templates alone), nothing, or a failure of the runtime
SettingsReplies ==
  { [kind |-> "object", value |-> LoadedSettings],
    [kind |-> "object", value |-> [prompts |-> <<PromptPlain>>]],
    [kind |-> "nothing"], [kind |-> "error"] }

\* sendMessage: the response, null when the runtime fails
sendMessage(reply) ==
  IF reply.kind = "error" THEN [kind |-> "nothing"] ELSE reply

\* { hotkey: s.hotkey || ..., textTrigger: s.textTrigger || ...,
\*   prompts: Array.isArray(s.prompts) ? s.prompts : [], ...s }
AdoptSettings(s) ==
  LET has(f) == f \in DOMAIN s
      validated ==
        [hotkey |-> IF has("hotkey") /\ s["hotkey"] # << >>
                    THEN s["hotkey"] ELSE DefaultSettings.hotkey,
         textTrigger |-> IF has("textTrigger") /\ s["textTrigger"] # << >>
                         THEN s["textTrigger"] ELSE DefaultSettings.textTrigger,
         prompts |-> IF has("prompts") THEN s["prompts"] ELSE << >>]
  IN  [hotkey |-> IF has("hotkey") THEN s["hotkey"] ELSE validated.hotkey,
       textTrigger |-> IF has("textTrigger") THEN s["textTrigger"]
                       ELSE validated.textTrigger,
       prompts |-> IF has("prompts") THEN s["prompts"] ELSE validated.prompts]

\* a run of the retry loop that does not count its attempts
AfterReplyUncounted(w, reply) ==
  LET s == sendMessage(reply)
  IN  IF s.kind = "object"
      THEN [w EXCEPT !.settings = AdoptSettings(s.value),
                     !.initState.step = "focusDelay"]
      ELSE [w EXCEPT !.initState.step = "retryDelay"]

\* the body of the retry loop of init from the reply on
AfterReply(w, reply) ==
  LET s == sendMessage(reply)
      retries == w.initState.retries - 1
  IN  IF s.kind = "object"
      THEN [w EXCEPT !.settings = AdoptSettings(s.value),
                     !.initState.step = "focusDelay"]
      ELSE [w EXCEPT !.initState =
                       [step |-> IF retries > 0 THEN "retryDelay" ELSE "focusDelay",
                        retries |-> retries]]

\* the content script constructed, init() awaiting its first reply; the
\* listeners are registered by the constructor
InitBoot ==
  /\ settings = DefaultSettings
  /\ EngineFields
  /\ initState = [step |-> "send", retries |-> MAX_RETRIES]
  /\ text = [s \in Surfaces |-> << >>]
  /\ cursor = [s \in Surfaces |-> 0]
  /\ attached = Surfaces
  /\ focus = "body"
  /\ env = Brief

\* the reply to getSettings arrives
SettingsReply ==
  \E reply \in SettingsReplies :
    /\ initState.step = "send"
    /\ Becomes(AfterReply(World, reply))
\* the delay between two attempts has passed
RetryElapsed ==
  /\ initState.step = "retryDelay"
  /\ Becomes([World EXCEPT !.initState.step = "send"])
\* the delay after the loop has passed: init() returns
FocusElapsed ==
  /\ initState.step = "focusDelay"
  /\ Becomes([World EXCEPT !.initState.step = "done"])

InitStep == SettingsReply \/ RetryElapsed \/ FocusElapsed
NextBoot == Keydown \/ FocusMove \/ FireTimer \/ InitStep

\* the settings provider answers or fails, and the browser runs a timer
\* whose delay has passed: init() does not wait forever at a step (one of
\* its steps is possible whenever it has not returned)
BootFairness == []<>(initState.step = "done") \/ []<><<InitStep>>_vars
SpecBoot == InitBoot /\ [][NextBoot]_vars /\ BootFairness

handleMessage(w) ==
  IF w.isDestroyed THEN w
  ELSE IF w.isDropdownVisible THEN resetDropdownMode(w)
  ELSE LET editable == findActiveEditableElement(w)
       IN  IF editable # Null
           THEN SetTimeout([w EXCEPT !.activeInput = editable],
                           "activate", ACTIVATION_DELAY, Null)
           ELSE w

\* the background script sends the request, the focus not in the form
ShowRequest ==
  /\ Len(timers) <= env.maxPending
  /\ focus \notin Fields
  /\ Becomes(handleMessage(World))

InitToggle == Loaded /\ env = Brief
NextToggle == Next \/ ShowRequest
SpecToggle == InitToggle /\ [][NextToggle]_vars

\* what a handler leaves of the engine and the page, the mark of
\* preventDefault on the event aside
EffectOf(w) == [w EXCEPT !.prevented = FALSE]

\* the press of the hotkey in the current state
HotkeyPress == handleKeydown(World, KeyEvent(<<"P">>, TRUE, TRUE), focus)

\* C27: in every state in which an editable surface is resolved from the
\* focus, the external request to show the dropdown has the effect of a
\* press of the hotkey in the page; in every other state it changes nothing
C27_RequestEqualsHotkey ==
  IF findActiveEditableElement(World) # Null
  THEN EffectOf(handleMessage(World)) = EffectOf(HotkeyPress)
  ELSE EffectOf(handleMessage(World)) = EffectOf(World)

\* the list is shown over the focused surface: the request ends the
\* session, while the hotkey goes into the filter of the list
C27_RequestResetsHotkeyFilters ==
  /\ isDropdownVisible /\ isInDropdownMode /\ rendered = "list"
  /\ focus = "A" /\ activeInput = "A"
  /\ ~handleMessage(World).isInDropdownMode
  /\ HotkeyPress.isInDropdownMode
  /\ HotkeyPress.filterValue = filterValue \o <<"P">>


(***************************************************************************)
(* Typing into the filter of the list                                      *)
(***************************************************************************)
MaxTyped == 2

\* a page whose rich-text surface is the root of a Lexical editor
\* (data-lexical-editor="true"), and a page whose rich-text surface is not
Lexical ==
  [targets |-> {"E", "body"}, chars |-> {"g", "o"},
   chunks |-> { <<":">> }, maxLen |-> MaxLenTwo, maxPending |-> MaxPending,
   maxText |-> MaxText, editor |-> "native", lexical |-> TRUE]
PlainEditor ==
  [targets |-> {"E", "body"}, chars |-> {"g", "o"},
   chunks |-> { <<":">> }, maxLen |-> MaxLenTwo, maxPending |-> MaxPending,
   maxText |-> MaxText, editor |-> "native", lexical |-> FALSE]

\* e.target.getAttribute('data-lexical-editor') === 'true'
IsLexicalEditor(w, target) == target = "E" /\ w.env.lexical

\* the keyup listener on the document; target is e.target
handleKeyup(w, e, target) ==
  IF /\ target \in Surfaces
     /\ IsLexicalEditor(w, target)
     /\ (Len(e.key) = 1 \/ e.key = Backspace \/ e.key = Delete)
  THEN handleInput(w, target)
  ELSE w

\* the state in which the listeners and the browser leave the page once
\* key e went down and up on the element that holds the focus
KeystrokeOutcome(e) ==
  LET w == KeyOutcome(e)
  IN  handleKeyup([w EXCEPT !.prevented = FALSE], e, focus)

InitFilter == Loaded /\ env \in {Lexical, PlainEditor}

\* a key goes down and up; both events have the focused element as target
Keystroke ==
  \E e \in KeyEvents :
    /\ Len(timers) <= env.maxPending
    /\ (isDropdownVisible /\ Len(e.key) = 1) => Len(filterValue) < MaxTyped
    /\ focus \notin Fields
    /\ focus = "control" => (Len(e.key) # 1 /\ e.key # Backspace)
    /\ Becomes(KeystrokeOutcome(e))

NextFilter == Keystroke \/ Paste \/ Click \/ ItemClick \/ FireTimer
SpecFilter == InitFilter /\ [][NextFilter]_vars

\* the keys that edit the filter, and the filter each of them leaves
FilterKeys ==
  { KeyEvent(<<c>>, FALSE, FALSE) : c \in env.chars }
    \cup { KeyEvent(Backspace, FALSE, FALSE) }
Typed(e) ==
  IF Len(e.key) = 1 THEN filterValue \o e.key
  ELSE SubSeq(filterValue, 1, Len(filterValue) - 1)

\* the list is shown in Filtering and the surface of the session holds the
\* focus
FilteringShown ==
  /\ isDropdownVisible /\ isInDropdownMode /\ ~isInPlaceholderMode
  /\ rendered = "list" /\ ~isHiding
  /\ activeInput \in Surfaces /\ focus = activeInput

\* C31: while the list is shown in Filtering, a printable key appends its
\* character to the characters typed so far and Backspace removes the last
\* of them; once the key went down and up, on a Lexical editor as on any
\* other surface, the ranked list is the ranking of the characters typed
\* and the text of the surface is what it was
C31_TypingFilters ==
  FilteringShown =>
    \A e \in FilterKeys :
      (Len(e.key) = 1 \/ filterValue # << >>) =>
        LET w == KeystrokeOutcome(e)
        IN  /\ w.filteredPrompts = RankPrompts(Typed(e), settings.prompts)
            /\ w.text = text

\* on a Lexical editor the list is shown for the trigger alone: the key g
\* ranks the templates on its way down, and on its way up the list is
\* ranked again by the empty query of the text
C31_KeyupRanksAgain ==
  /\ FilteringShown /\ env.lexical /\ filterValue = << >>
  /\ KeyOutcome(KeyEvent(<<"g">>, FALSE, FALSE)).filteredPrompts
       = RankPrompts(<<"g">>, settings.prompts)
  /\ KeystrokeOutcome(KeyEvent(<<"g">>, FALSE, FALSE)).filteredPrompts
       = settings.prompts
  /\ RankPrompts(<<"g">>, settings.prompts) # settings.prompts


(***************************************************************************)
(* The modes and the visibility of the dropdown                            *)
(***************************************************************************)
\* C32: in every reachable state a session that is Filtering or Collecting
\* has its dropdown visible: once the dropdown was hidden, by a click
\* outside it or by the timer of the no-prompts message, no mode is left
\* that a later input event could resume
C32_ModeImpliesVisible ==
  (isInDropdownMode \/ isInPlaceholderMode) => isDropdownVisible

\* the timer of the no-prompts message has hidden and removed the dropdown
\* and nothing is pending, yet the session is still Filtering with the
\* offset at which it was opened: the next input event on the surface goes
\* to the session and shows the dropdown again
C32_ResumedAfterAutoHide ==
  /\ settings.prompts = << >>
  /\ timers = << >> /\ dropdown = 0 /\ ~isDropdownVisible
  /\ isInDropdownMode /\ dropdownModeType = "textTrigger"
  /\ activeInput = "A" /\ focus = "A"
  /\ LET w == handleInput(World, "A")
     IN  /\ w.isInDropdownMode /\ w.isDropdownVisible
         /\ w.dropdownModeStartPosition = dropdownModeStartPosition


(***************************************************************************)
(* The settingsUpdated message                                             *)
(***************************************************************************)
\* the settings the options page sends after a save: the text trigger kept
\* or changed, the library kept, emptied, or not an array
UpdatedTriggers == { TextTrigger, <<":", ":">>, << >> }
SettingsMessages ==
  { [hotkey |-> Hotkey, textTrigger |-> t, prompts |-> p, isArray |-> a] :
      t \in UpdatedTriggers, p \in { << >>, LoadedSettings.prompts },
      a \in BOOLEAN }

\* handleMessage for { action: 'settingsUpdated', settings: message }
settingsUpdated(w, message) ==
  [w EXCEPT !.settings =
     [hotkey |-> message.hotkey, textTrigger |-> message.textTrigger,
      prompts |-> IF message.isArray THEN message.prompts ELSE @.prompts]]

\* a page with one text field in which the user types the trigger and blanks
Typist ==
  [targets |-> {"A", "body"}, chars |-> {":", " "},
   chunks |-> { <<":">> }, maxLen |-> MaxLen, maxPending |-> MaxPendingTwo,
   maxText |-> MaxText, editor |-> "native"]

InitUpdate == Loaded /\ env = Typist

\* the options page saves the settings; the text trigger is changed at most
\* once
SettingsUpdated ==
  \E message \in SettingsMessages :
    /\ Len(timers) <= env.maxPending
    /\ settings.textTrigger = TextTrigger
    /\ Becomes(settingsUpdated(World, message))

NextUpdate == Keydown \/ Click \/ FireTimer \/ SettingsUpdated
SpecUpdate == InitUpdate /\ [][NextUpdate]_vars


(***************************************************************************)
(* The guard against the input events of an insertion                      *)
(***************************************************************************)
\* C33: justInsertedPrompt is never left set for ever.  The flag is cleared
\* by the timer insertPrompt sets after the insertion and by nothing else
\* that runs on its own, so the flag comes off in the end exactly when,
\* after every handler that leaves it set, the timer that clears it is
\* pending
C33_GuardEventuallyOff ==
  justInsertedPrompt => Pending(timers, "guardOff") > 0

\* both insertion primitives have failed on the rich-text surface: the flag
\* is set and no timer is pending that would clear it
C33_GuardLeftSet ==
  /\ env.editor = "broken"
  /\ justInsertedPrompt /\ timers = << >>
  /\ Pending(timers, "guardOff") = 0


(***************************************************************************)
(* The span of a session whose text trigger is changed                     *)
(***************************************************************************)
\* a TextTrigger session opened under the text trigger of the loaded
\* settings is about to insert a template into its surface
TriggerSessionInserts ==
  /\ isInDropdownMode /\ ~isInPlaceholderMode
  /\ dropdownModeType = "textTrigger"
  /\ settings.textTrigger = TextTrigger
  /\ activeInput \in Surfaces /\ activeInput \in attached
  /\ AttemptedContent # << >>

\* the offset at which the trigger occurrence of that session began
TriggerBegan == dropdownModeStartPosition - Len(TextTrigger)

\* C34: in a TextTrigger session the span replaced at insertion starts at
\* the offset at which the trigger occurrence began when the session was
\* opened, also when a settingsUpdated message has changed the text trigger
\* in between: the insertion leaves the text it would have left without the
\* message, the text before that offset is unchanged, and the cursor is not
\* negative
C34_SpanStartFixed ==
  TriggerSessionInserts =>
    \A message \in SettingsMessages :
      LET w == AttemptInsertion(settingsUpdated(World, message))
      IN  /\ w.text[activeInput] = AttemptInsertion(World).text[activeInput]
          /\ Substring(w.text[activeInput], 0, TriggerBegan)
               = Substring(text[activeInput], 0, TriggerBegan)
          /\ w.cursor[activeInput] >= 0

\* the session was opened by ':' after a blank; with the text trigger
\* changed to '::' the insertion takes the blank before the trigger away
C34_LongerTriggerEatsText ==
  /\ TriggerSessionInserts /\ activeInput = "A"
  /\ text["A"] = <<" ", ":">> /\ TriggerBegan = 1
  /\ LET message == [hotkey |-> Hotkey, textTrigger |-> <<":", ":">>,
                     prompts |-> << >>, isArray |-> FALSE]
     IN  /\ AttemptInsertion(settingsUpdated(World, message)).text["A"]
              = AttemptedContent
         /\ AttemptInsertion(World).text["A"] = <<" ">> \o AttemptedContent


(***************************************************************************)
(* The surface of a session                                                *)
(***************************************************************************)
\* C35: whenever the session is Filtering, activeInput is an element, and
\* it is the surface whose text and cursor gave dropdownModeStartPosition:
\* as long as the session lasts no event, focus change or deferred
\* activation puts another element, or none, in its place
C35_SessionKeepsItsSurface ==
  /\ [](isInDropdownMode => activeInput # Null)
  /\ [][(isInDropdownMode /\ isInDropdownMode') => activeInput' = activeInput]_vars

\* the session was opened by the trigger typed into A; the focus has moved
\* to the empty surface B, which is now activeInput, and the session goes on
\* with the offset computed from the text of A
C35_SessionOnOtherSurface ==
  /\ isInDropdownMode /\ isDropdownVisible
  /\ activeInput = "B" /\ focus = "B"
  /\ text["B"] = << >> /\ dropdownModeStartPosition = 1
  /\ text["A"] = TextTrigger
  /\ timers = << >>


(***************************************************************************)
(* The selected item of the list                                           *)
(***************************************************************************)
HOVER_SCROLL_DELAY == 10

\* onSelectIndex of the list: the pointer enters the item at index; the
\* timer it sets scrolls the item into view
onSelectIndex(w, index) ==
  IF index >= 0
  THEN SetTimeout([w EXCEPT !.selectedIndex = index],
                  "hoverScroll", HOVER_SCROLL_DELAY, Null)
  ELSE w

InitHover == Loaded /\ env = Typist

\* the pointer enters an item of the list the dropdown shows
ItemHover ==
  \E index \in 0..(Len(filteredPrompts) - 1) :
    /\ Len(timers) <= env.maxPending
    /\ dropdown # 0 /\ rendered = "list"
    /\ Becomes(onSelectIndex(World, index))

NextHover == Keydown \/ Paste \/ Click \/ ItemHover \/ FireTimer
SpecHover == InitHover /\ [][NextHover]_vars

PressArrowDown == KeyEvent(ArrowDown, FALSE, FALSE)
PressArrowUp == KeyEvent(ArrowUp, FALSE, FALSE)

\* C36: whenever the dropdown is visible in Filtering, selectedIndex is at
\* least -1 and less than the length of the ranked list, and it is -1
\* exactly when the ranked list is empty, whatever re-ranking, arrow keys
\* and hovering came before; ArrowDown on the last item and ArrowUp on the
\* first leave selectedIndex as it is
C36_SelectionWithinList ==
  (isDropdownVisible /\ isInDropdownMode /\ ~isInPlaceholderMode) =>
    /\ -1 <= selectedIndex /\ selectedIndex < Len(filteredPrompts)
    /\ selectedIndex = -1 <=> filteredPrompts = << >>
    /\ (FromSessionUI /\ selectedIndex = Len(filteredPrompts) - 1) =>
         KeyOutcome(PressArrowDown).selectedIndex = selectedIndex
    /\ (FromSessionUI /\ selectedIndex = 0) =>
         KeyOutcome(PressArrowUp).selectedIndex = selectedIndex

\* the text after the trigger matches no template: the message is shown,
\* the ranked list is empty and selectedIndex still points at its first item
C36_StaleSelection ==
  /\ isDropdownVisible /\ isInDropdownMode /\ ~isInPlaceholderMode
  /\ rendered = "message"
  /\ filteredPrompts = << >> /\ selectedIndex = 0


(***************************************************************************)
(* Values that look like placeholders                                      *)
(***************************************************************************)
\* what the user puts into a field of the form at once (a paste, or an
\* input method): nothing, a plain character, or the text of a placeholder
FieldValues == { << >>, <<"k">>, <<"{", "m", "}">> }

InitForm ==
  /\ settings = [LoadedSettings EXCEPT !.prompts = <<PromptBare>>]
  /\ Constructed /\ env = Brief

\* the input event of a field of the form: onPlaceholderChange(name, value)
FieldInput ==
  \E value \in FieldValues :
    /\ Len(timers) <= env.maxPending
    /\ IsLiveField(World, focus)
    /\ Becomes(onPlaceholderChange(
                 World, placeholders[FieldIndex(focus) + 1].name, value))

NextForm == Keydown \/ FieldInput \/ FormClick \/ Click \/ FireTimer
SpecForm == InitForm /\ [][NextForm]_vars

\* the placeholders whose token, in their own form, starts at offset pos
TokensAt(content, pos, phs) ==
  { i \in 1..Len(phs) :
      NamedTokenEnd(content, pos,
                    IF phs[i].syntax = "bracket" THEN "[" ELSE "{",
                    IF phs[i].syntax = "bracket" THEN "]" ELSE "}",
                    phs[i].name) >= 0 }

\* content with every token of every placeholder replaced at once, in one
\* reading of the template from offset pos
RECURSIVE SubstituteAtOnce(_, _, _, _)
SubstituteAtOnce(content, pos, phs, values) ==
  IF pos >= Len(content) THEN << >>
  ELSE LET here == TokensAt(content, pos, phs)
       IN  IF here = {}
           THEN <<content[pos + 1]>> \o SubstituteAtOnce(content, pos + 1, phs, values)
           ELSE LET i == CHOOSE k \in here : \A j \in here : k <= j
                    ph == phs[i]
                    open == IF ph.syntax = "bracket" THEN "[" ELSE "{"
                    close == IF ph.syntax = "bracket" THEN "]" ELSE "}"
                IN  FirstNonEmpty(values[ph.name], ph.defaultValue, << >>)
                      \o SubstituteAtOnce(
                           content,
                           NamedTokenEnd(content, pos, open, close, ph.name),
                           phs, values)

\* C37: the text handed to the insertion is the template with all tokens
\* replaced at once by their values: a value is put in literally, and text
\* that one value brought in is never taken for a token and replaced by the
\* value of another placeholder
C37_SubstitutionIsSimultaneous ==
  isInPlaceholderMode =>
    FinalContent(World) =
      SubstituteAtOnce(currentPromptContent, 0, placeholders, placeholderValues)

\* the form of the template [n]{m} with n given the value {m} and m the
\* value k: the insertion gets kk, the template read once gives {m}k
C37_ValueReplacedAgain ==
  /\ isInPlaceholderMode /\ currentPromptContent = PromptBare.content
  /\ placeholderValues[<<"n">>] = <<"{", "m", "}">>
  /\ placeholderValues[<<"m">>] = <<"k">>
  /\ FinalContent(World) = <<"k", "k">>
  /\ SubstituteAtOnce(currentPromptContent, 0, placeholders, placeholderValues)
       = <<"{", "m", "}", "k">>


(***************************************************************************)
(* The hotkey on macOS                                                     *)
(***************************************************************************)
\* the exception of matchesHotkey on macOS applies to event e and hotkey
\* setting h: the setting requires ctrl and not meta, the event holds meta
\* and not ctrl
CtrlMetaCompat(h, e) ==
  LET required == RequiredModifiers(h, TRUE)
  IN  /\ "ctrl" \in required /\ "meta" \notin required
      /\ e.metaKey /\ ~e.ctrlKey

\* C38: on macOS an event that holds meta in place of the ctrl the hotkey
\* requires matches the hotkey only if its shift and alt are as the hotkey
\* requires them
C38_CompatKeepsShiftAndAlt ==
  \A h \in HotkeySpecs : \A e \in HotkeyEvents :
    (/\ h.text = settings.hotkey
     /\ CtrlMetaCompat(h, e)
     /\ matchesHotkey(e, settings.hotkey, TRUE))
    => /\ e.shiftKey = ("shift" \in RequiredModifiers(h, TRUE))
       /\ e.altKey = ("alt" \in RequiredModifiers(h, TRUE))

\* the hotkey is Ctrl+Shift+P and a session is open: on macOS the key P with
\* meta alone, and with meta and alt, matches the hotkey
C38_MetaAloneMatches ==
  /\ settings.hotkey = Hotkey /\ isDropdownVisible
  /\ matchesHotkey([key |-> <<"P">>, ctrlKey |-> FALSE, shiftKey |-> FALSE,
                    altKey |-> FALSE, metaKey |-> TRUE], settings.hotkey, TRUE)
  /\ matchesHotkey([key |-> <<"p">>, ctrlKey |-> FALSE, shiftKey |-> FALSE,
                    altKey |-> TRUE, metaKey |-> TRUE], settings.hotkey, TRUE)
  /\ ~matchesHotkey([key |-> <<"P">>, ctrlKey |-> FALSE, shiftKey |-> FALSE,
                     altKey |-> FALSE, metaKey |-> TRUE], settings.hotkey, FALSE)


(***************************************************************************)
(* The Settings Provider: the background script and its storage            *)
(***************************************************************************)
MaxRequests == 2
MaxClock == 3

\* the variables of the page, settings aside
PageState ==
  <<activeInput, dropdown, selectedIndex, filteredPrompts, filterValue,
    isDropdownVisible, isHiding, isInDropdownMode, dropdownModeStartPosition,
    dropdownModeType, dropdownModeLastCursorPos, justInsertedPrompt,
    isInPlaceholderMode, currentPromptContent, placeholders,
    placeholderValues, currentPlaceholderIndex, text, cursor, attached,
    focus, rendered, timers, env, initState, isDestroyed>>

\* the requests of the options page that change the library
PromptTexts ==
  { [name |-> <<"g">>, content |-> <<"k">>],
    [name |-> <<"o">>, content |-> <<"k">>] }
ProviderRequests ==
  { [action |-> "addPrompt", id |-> 0, prompt |-> p] : p \in PromptTexts }
    \cup { [action |-> "updatePrompt", id |-> i, prompt |-> p] :
             i \in 0..MaxClock, p \in PromptTexts }
    \cup { [action |-> "deletePrompt", id |-> i, prompt |-> << >>] :
             i \in 0..MaxClock }

\* settings.prompts.findIndex(p => p.id === id), 0-based, -1 for none
FindIndex(prompts, id) ==
  LET hits == { i \in 1..Len(prompts) : prompts[i].id = id }
  IN  IF hits = {} THEN -1 ELSE (CHOOSE i \in hits : \A j \in hits : i <= j) - 1

\* settings.prompts.filter(p => p.id !== id)
WithoutId(prompts, id) == SelectSeq(prompts, LAMBDA p : p.id # id)

\* what addPrompt, updatePrompt and deletePrompt make of the prompts that
\* getSettings returned, now being the value of Date.now()
addPrompt(prompts, prompt, now) ==
  Append(prompts, [id |-> now, name |-> prompt.name, content |-> prompt.content])
updatePrompt(prompts, id, prompt) ==
  [prompts EXCEPT ![FindIndex(prompts, id) + 1] =
     [id |-> @.id, name |-> prompt.name, content |-> prompt.content]]
deletePrompt(prompts, id) == WithoutId(prompts, id)

\* the calls of storage.set made so far
SetsCalled(p) ==
  Cardinality({ i \in 1..Len(p.requests) : p.requests[i].pc \in {"set", "done"} })

\* the request message with what its handler holds: where it stands, the
\* settings it read, and the id it gave
ReceivedRequest(message) ==
  [message |-> message, pc |-> "get", local |-> << >>, newId |-> -1,
   order |-> 0]

ProviderBecomes(p) == provider' = p /\ UNCHANGED <<settings, PageState>>

\* runtime.onMessage: the handler runs up to its first await, the call of
\* storage.get in getSettings
ReceiveRequest ==
  \E message \in ProviderRequests :
    /\ Len(provider.requests) < MaxRequests
    /\ ProviderBecomes([provider EXCEPT
                          !.requests = Append(@, ReceivedRequest(message))])

\* the storage reads the settings for a pending storage.get
StorageGet ==
  \E i \in 1..Len(provider.requests) :
    /\ provider.requests[i].pc = "get"
    /\ ProviderBecomes([provider EXCEPT
                          !.requests[i].pc = "got",
                          !.requests[i].local = provider.stored])

\* the handler goes on after getSettings: it changes the settings it read
\* and calls storage.set in saveSettings; updatePrompt throws for an id it
\* does not find
RequestContinues ==
  \E i \in 1..Len(provider.requests) :
    LET r == provider.requests[i]
        m == r.message
    IN  /\ r.pc = "got"
        /\ ProviderBecomes(
             IF m.action = "addPrompt"
             THEN [provider EXCEPT
                     !.requests[i].pc = "set",
                     !.requests[i].order = SetsCalled(provider) + 1,
                     !.requests[i].newId = provider.clock,
                     !.requests[i].local = addPrompt(r.local, m.prompt, provider.clock)]
             ELSE IF m.action = "updatePrompt"
             THEN IF FindIndex(r.local, m.id) # -1
                  THEN [provider EXCEPT
                          !.requests[i].pc = "set",
                          !.requests[i].order = SetsCalled(provider) + 1,
                          !.requests[i].local = updatePrompt(r.local, m.id, m.prompt)]
                  ELSE [provider EXCEPT !.requests[i].pc = "failed"]
             ELSE [provider EXCEPT
                     !.requests[i].pc = "set",
                     !.requests[i].order = SetsCalled(provider) + 1,
                     !.requests[i].local = deletePrompt(r.local, m.id)])

\* the storage writes the settings of the pending storage.set that was
\* called first, and saveSettings goes on to broadcast them
StorageSet ==
  \E i \in 1..Len(provider.requests) :
    /\ provider.requests[i].pc = "set"
    /\ \A j \in 1..Len(provider.requests) :
         provider.requests[j].pc = "set"
           => provider.requests[i].order <= provider.requests[j].order
    /\ ProviderBecomes([provider EXCEPT
                          !.requests[i].pc = "done",
                          !.stored = provider.requests[i].local,
                          !.outbox = Append(@, provider.requests[i].local)])

\* the settingsUpdated message of a broadcast reaches the content script
BroadcastArrives ==
  /\ provider.outbox # << >>
  /\ provider' = [provider EXCEPT !.outbox = Tail(@)]
  /\ settings' =
       settingsUpdated(
         World,
         [hotkey |-> Hotkey, textTrigger |-> TextTrigger,
          prompts |-> [i \in 1..Len(Head(provider.outbox)) |->
                         [name |-> Head(provider.outbox)[i].name,
                          content |-> Head(provider.outbox)[i].content]],
          isArray |-> TRUE]).settings
  /\ UNCHANGED PageState

\* Date.now() moves on
ClockTicks ==
  /\ provider.clock < MaxClock
  /\ ProviderBecomes([provider EXCEPT !.clock = @ + 1])

InitProvider == Loaded /\ env = Brief
NextProvider ==
  \/ ReceiveRequest \/ StorageGet \/ RequestContinues \/ StorageSet
  \/ BroadcastArrives \/ ClockTicks
SpecProvider == InitProvider /\ [][NextProvider]_vars

\* the prompts after request r alone was handled on prompts
HandledAlone(prompts, r) ==
  IF r.message.action = "addPrompt"
  THEN addPrompt(prompts, r.message.prompt, r.newId)
  ELSE IF r.message.action = "updatePrompt"
  THEN IF FindIndex(prompts, r.message.id) # -1
       THEN updatePrompt(prompts, r.message.id, r.message.prompt)
       ELSE prompts
  ELSE deletePrompt(prompts, r.message.id)

\* two requests were received and both have been handled to their end
BothHandled ==
  /\ Len(provider.requests) = 2
  /\ \A i \in 1..2 : provider.requests[i].pc \in {"done", "failed"}

\* C39: no update of the library is lost: when two requests that change it
\* have both been handled, however their reads and writes of the storage
\* were interleaved, the stored prompts are what handling the one request
\* and then the other gives
C39_NoLostUpdate ==
  BothHandled =>
    LET r1 == provider.requests[1]
        r2 == provider.requests[2]
    IN  \/ provider.stored = HandledAlone(HandledAlone(StoredPrompts, r1), r2)
        \/ provider.stored = HandledAlone(HandledAlone(StoredPrompts, r2), r1)

\* two addPrompt requests have been answered, each with its new prompt, and
\* the storage holds one prompt more than before
C39_OneOfTwoAdded ==
  /\ BothHandled
  /\ \A i \in 1..2 : /\ provider.requests[i].message.action = "addPrompt"
                     /\ provider.requests[i].pc = "done"
  /\ Len(provider.stored) = Len(StoredPrompts) + 1


(***************************************************************************)
(* The end of the content script                                           *)
(***************************************************************************)
\* ResourceManager.destroy(): the timeouts cleared, the listeners removed
ResourcesDestroy(w) == [w EXCEPT !.isDestroyed = TRUE, !.timers = << >>]

\* AIPromptAutocomplete.destroy(); the element of the dropdown stays in the
\* document with what it shows
destroy(w) ==
  [ResourcesDestroy(IF w.isDropdownVisible THEN hideDropdown(w) ELSE w)
     EXCEPT !.dropdown = 0, !.activeInput = Null,
            !.isDropdownVisible = FALSE, !.isInDropdownMode = FALSE,
            !.isInPlaceholderMode = FALSE]

InitDestroy == Loaded /\ env = Brief

\* the extension context is invalidated, or the page is unloaded
Destroy ==
  /\ ~isDestroyed
  /\ Becomes(destroy(World))

\* the events of the page while the listeners on the document are there
ListenedKeydown == ~isDestroyed /\ Keydown
ListenedClick == ~isDestroyed /\ Click

\* the user clicks on an item of the list in the element the destroyed
\* engine left in the document: the onClick of the item still runs, the
\* listeners on the document do not
LeftoverItemClick ==
  \E index \in 0..(Len(filteredPrompts) - 1) :
    /\ isDestroyed /\ rendered = "list"
    /\ Becomes(onSelectPrompt([World EXCEPT !.focus = "control"], index))

NextDestroy ==
  \/ ListenedKeydown \/ ListenedClick \/ FireTimer \/ ShowRequest
  \/ Destroy \/ LeftoverItemClick
SpecDestroy == InitDestroy /\ [][NextDestroy]_vars

\* the timers a handler may ask for
TimerKinds ==
  {"activate", "focusCheck", "hideRemove", "hideFocus", "guardOff",
   "formPosition", "hoverScroll"}

\* C40: once destroy() has run, no callback scheduled before it is invoked
\* and no pending timer changes the state of the session (none is left and
\* none fires), and every later call of setTimeout schedules nothing,
\* whichever handler makes it
C40_NothingRunsAfterDestroy ==
  /\ [](isDestroyed => timers = << >>)
  /\ [](isDestroyed =>
          \A kind \in TimerKinds : SetTimeout(World, kind, 0, Null) = World)
  /\ [](isDestroyed => handleMessage(World) = World)
  /\ [][isDestroyed => ~FireTimer]_vars
  /\ [][isDestroyed => isDestroyed']_vars

\* destroy() ran while the list was shown: the removal of the dropdown that
\* hideDropdown scheduled was cleared and never ran (isHiding is still set,
\* the element still shows the list), and a click on one of its items has
\* opened the form without a timer being set
C40_RemovalNeverRan ==
  /\ isDestroyed /\ timers = << >>
  /\ isHiding /\ dropdown = 0 /\ rendered = "list"
  /\ isInPlaceholderMode

=============================================================================
